---- MODULE Spec2Model ----
(***************************************************************************)
(* aws4-cli: the command-line front end of src/src/index.js as a state     *)
(* machine.  One process holds the module-level DEFAULT_OPTIONS object,    *)
(* process.argv and process.env; ArgumentParser and AWS4CLI act on them.   *)
(*                                                                         *)
(* Strings.  A JavaScript string is modelled as the sequence of its        *)
(* pieces: every character the code looks at (a leading '-', ':', '.',     *)
(* '/', '?', '&', '=', '#', ' ', and every character of a value given to   *)
(* --expires or carried by X-Amz-Expires) is a piece of its own, a run of  *)
(* other characters is one piece.  <<>> is the empty string.  No piece is  *)
(* empty, so Undefined and Null below are no strings.                      *)
(***************************************************************************)
EXTENDS Integers, Sequences, FiniteSets, TLC

\* ------------------------------------------------------------------------
\* JavaScript values

Undefined == <<"">>
Null == <<"", "">>

\* JavaScript truthiness of a string-or-undefined-or-null value.
Truthy(v) == v # Undefined /\ v # Null /\ v # <<>>

\* a || b
OrElse(a, b) == IF Truthy(a) THEN a ELSE b

Digits == <<"0", "1", "2", "3", "4", "5", "6", "7", "8", "9">>

IsDigit(c) == \E i \in 1..10 : Digits[i] = c

DigitVal(c) == (CHOOSE i \in 1..10 : Digits[i] = c) - 1

\* Number.prototype.toString() of an integer.
RECURSIVE NatToString(_)
NatToString(n) ==
  IF n < 10 THEN <<Digits[n + 1]>>
  ELSE NatToString(n \div 10) \o <<Digits[(n % 10) + 1]>>

NumberToString(n) ==
  IF n < 0 THEN <<"-">> \o NatToString(0 - n) ELSE NatToString(n)

\* The longest prefix of s made of decimal digits, read as a number:
\* [n |-> how many pieces were read, val |-> their value].
RECURSIVE DigitRun(_, _, _)
DigitRun(s, i, acc) ==
  IF i <= Len(s) /\ IsDigit(s[i])
  THEN DigitRun(s, i + 1, [n |-> acc.n + 1, val |-> acc.val * 10 + DigitVal(s[i])])
  ELSE acc

RECURSIVE SkipSpaces(_, _)
SkipSpaces(s, i) == IF i <= Len(s) /\ s[i] = " " THEN SkipSpaces(s, i + 1) ELSE i

NaN == [nan |-> TRUE, val |-> 0]

\* parseInt(x) with no radix: String(x), leading white space skipped, an
\* optional sign, then the longest run of decimal digits; whatever follows
\* the digits is ignored; no digit at all gives NaN.  (A "0x" prefix, which
\* parseInt reads as hexadecimal, is not among the inputs.)
parseInt(x) ==
  IF x = Undefined \/ x = Null THEN NaN
  ELSE LET i == SkipSpaces(x, 1)
           neg == i <= Len(x) /\ x[i] = "-"
           j == IF i <= Len(x) /\ (x[i] = "-" \/ x[i] = "+") THEN i + 1 ELSE i
           run == DigitRun(x, j, [n |-> 0, val |-> 0])
       IN IF run.n = 0 THEN NaN
          ELSE [nan |-> FALSE, val |-> IF neg THEN 0 - run.val ELSE run.val]

\* String.prototype.indexOf(c) for a one-character c, 1-based; 0 when absent
\* (JavaScript's -1).
RECURSIVE IndexFrom(_, _, _)
IndexFrom(s, c, i) ==
  IF i > Len(s) THEN 0 ELSE IF s[i] = c THEN i ELSE IndexFrom(s, c, i + 1)

IndexOf(s, c) == IndexFrom(s, c, 1)

\* s.slice(from - 1, to) in 1-based inclusive positions.
Slice(s, from, to) == IF from > to THEN <<>> ELSE SubSeq(s, from, to)

RECURSIVE TrimLeft(_)
TrimLeft(s) == IF s # <<>> /\ Head(s) = " " THEN TrimLeft(Tail(s)) ELSE s

RECURSIVE TrimRight(_)
TrimRight(s) ==
  IF s # <<>> /\ s[Len(s)] = " " THEN TrimRight(SubSeq(s, 1, Len(s) - 1)) ELSE s

\* String.prototype.trim()
Trim(s) == TrimRight(TrimLeft(s))

\* String.prototype.split(c): the sequence of the parts between the c's.
RECURSIVE SplitAcc(_, _, _, _)
SplitAcc(s, c, i, cur) ==
  IF i > Len(s) THEN <<cur>>
  ELSE IF s[i] = c THEN <<cur>> \o SplitAcc(s, c, i + 1, <<>>)
  ELSE SplitAcc(s, c, i + 1, Append(cur, s[i]))

Split(s, c) == SplitAcc(s, c, 1, <<>>)

\* Array.prototype.join(c) of a sequence of strings.
RECURSIVE Join(_, _)
Join(parts, c) ==
  IF parts = <<>> THEN <<>>
  ELSE IF Len(parts) = 1 THEN parts[1]
  ELSE parts[1] \o <<c>> \o Join(Tail(parts), c)

\* Array index as JavaScript reads it: out of range gives undefined.
\* (k is the 1-based position.)
At(arr, k) == IF k \in 1..Len(arr) THEN arr[k] ELSE Undefined

\* ------------------------------------------------------------------------
\* new URL(u), for URLs of the shape scheme://host[:port][/path][?query][#hash]
\* with scheme http or https; anything else throws (ok = FALSE).

RECURSIVE FirstIn(_, _, _)
FirstIn(s, cs, i) ==
  IF i > Len(s) THEN Len(s) + 1
  ELSE IF s[i] \in cs THEN i ELSE FirstIn(s, cs, i + 1)

InvalidURL ==
  [ok |-> FALSE, protocol |-> <<>>, hostname |-> <<>>, port |-> <<>>,
   pathname |-> <<>>, search |-> <<>>]

URL(u) ==
  IF u = Undefined \/ u = Null \/ Len(u) < 5 THEN InvalidURL
  ELSE IF u[1] \notin {"http", "https"} \/ u[2] # ":" \/ u[3] # "/" \/ u[4] # "/"
  THEN InvalidURL
  ELSE LET a == FirstIn(u, {"/", "?", "#"}, 5)
           authority == Slice(u, 5, a - 1)
           colon == IndexOf(authority, ":")
           hostname == IF colon = 0 THEN authority
                       ELSE Slice(authority, 1, colon - 1)
           port == IF colon = 0 THEN <<>>
                   ELSE Slice(authority, colon + 1, Len(authority))
           q == FirstIn(u, {"?", "#"}, a)
           h == FirstIn(u, {"#"}, q)
           rawPath == Slice(u, a, q - 1)
           rawSearch == Slice(u, q, h - 1)
       IN IF hostname = <<>> THEN InvalidURL
          ELSE [ok |-> TRUE,
                protocol |-> <<u[1], ":">>,
                hostname |-> hostname,
                port |-> port,
                \* an empty path of an http(s) URL is "/"
                pathname |-> IF rawPath = <<>> THEN <<"/">> ELSE rawPath,
                \* url.search is "" for an empty query ("?" alone)
                search |-> IF rawSearch = <<"?">> THEN <<>> ELSE rawSearch]

\* url.searchParams: the sequence of <<name, value>> pairs of the query.
\* Empty pieces between '&' are dropped; a piece without '=' has the empty
\* value.  (Names and values of the inputs hold no '+', '%' or other
\* character the urlencoded parser or serializer rewrites.)
ParamOf(piece) ==
  LET e == IndexOf(piece, "=")
  IN IF e = 0 THEN <<piece, <<>>>>
     ELSE <<Slice(piece, 1, e - 1), Slice(piece, e + 1, Len(piece))>>

searchParams(search) ==
  IF search = <<>> THEN <<>>
  ELSE LET pieces == SelectSeq(Split(Tail(search), "&"), LAMBDA p : p # <<>>)
       IN [k \in 1..Len(pieces) |-> ParamOf(pieces[k])]

\* URLSearchParams.prototype.has(name)
ParamsHas(params, name) == \E k \in 1..Len(params) : params[k][1] = name

\* URLSearchParams.prototype.get(name): the first value, or null.
ParamsGet(params, name) ==
  IF ParamsHas(params, name)
  THEN params[CHOOSE k \in 1..Len(params) :
                /\ params[k][1] = name
                /\ \A j \in 1..(k - 1) : params[j][1] # name][2]
  ELSE Null

\* URLSearchParams.prototype.set(name, value): the first pair of that name
\* gets the value and the others of that name go; with no such pair the new
\* pair is appended.
ParamsSet(params, name, value) ==
  IF ParamsHas(params, name)
  THEN LET first == CHOOSE k \in 1..Len(params) :
                      /\ params[k][1] = name
                      /\ \A j \in 1..(k - 1) : params[j][1] # name
           keep == {k \in 1..Len(params) : k = first \/ params[k][1] # name}
           idx(n) == CHOOSE k \in keep : Cardinality({j \in keep : j <= k}) = n
       IN [n \in 1..Cardinality(keep) |->
             IF idx(n) = first THEN <<name, value>> ELSE params[idx(n)]]
  ELSE Append(params, <<name, value>>)

\* The urlencoded serializer: name=value pairs joined by '&'.
SerializeParams(params) ==
  Join([k \in 1..Len(params) |-> params[k][1] \o <<"=">> \o params[k][2]], "&")

\* url.search after url.searchParams has been changed to params.
SearchOf(params) ==
  IF params = <<>> THEN <<>> ELSE <<"?">> \o SerializeParams(params)

\* ------------------------------------------------------------------------
\* Hostname pattern matching (AWS4CLI.extractServiceFromHost / RegionFromHost)

\* The rule of the legacy entry point (src/index.js), which reads the service
\* off the first label; the properties must tell it from the rule in use.
extractServiceFromHost_FirstLabel(hostname) ==
  LET parts == Split(hostname, ".")
  IN IF Len(parts) >= 3 /\ parts[Len(parts) - 1] = <<"amazonaws">>
     THEN parts[1]
     ELSE Null

extractServiceFromHost(hostname) ==
  LET parts == Split(hostname, ".")
  IN IF Len(parts) >= 3 /\ parts[Len(parts) - 1] = <<"amazonaws">>
     THEN At(parts, Len(parts) - 3)
     ELSE Null

extractRegionFromHost(hostname) ==
  LET parts == Split(hostname, ".")
  IN IF Len(parts) >= 3 /\ parts[Len(parts) - 1] = <<"amazonaws">>
     THEN At(parts, Len(parts) - 2)
     ELSE Null

\* ------------------------------------------------------------------------
\* Command-line words

O_help == {<<"-", "h">>, <<"-", "-help">>}
O_method == {<<"-", "X">>, <<"-", "-method">>}
O_header == {<<"-", "H">>, <<"-", "-header">>}
O_data == {<<"-", "d">>, <<"-", "-data">>}
O_service == {<<"-", "s">>, <<"-", "-service">>}
O_region == {<<"-", "r">>, <<"-", "-region">>}
O_accessKey == {<<"-", "-access-key">>}
O_secretKey == {<<"-", "-secret-key">>}
O_sessionToken == {<<"-", "-session-token">>}
O_profile == {<<"-", "-profile">>}
O_expires == {<<"-", "-expires">>}
O_signQuery == {<<"-", "-sign-query">>}
O_output == {<<"-", "-output">>}
O_verbose == {<<"-", "v">>, <<"-", "-verbose">>}

\* arg.startsWith('-')
StartsWithDash(arg) == arg # <<>> /\ arg[1] = "-"

OutputFormats == {<<"url">>, <<"curl">>, <<"headers">>}

DefaultExpires == 3600
MaxExpires == 604800

\* The module-level DEFAULT_OPTIONS object as built when the module loads,
\* from the environment e of that moment.  body and service are no keys of
\* it yet (undefined).
DefaultOptionsAtLoad(e) ==
  [method |-> <<"GET">>,
   headers |-> <<>>,
   region |-> e.AWS_REGION,
   accessKeyId |-> e.AWS_ACCESS_KEY_ID,
   secretAccessKey |-> e.AWS_SECRET_ACCESS_KEY,
   sessionToken |-> e.AWS_SESSION_TOKEN,
   profile |-> e.AWS_PROFILE,
   expires |-> DefaultExpires,
   signQuery |-> FALSE,
   output |-> <<"url">>,
   verbose |-> FALSE,
   body |-> Undefined,
   service |-> Undefined]

\* obj[name] = value on an object kept as the sequence of its <<key, value>>
\* entries in insertion order.
SetEntry(obj, name, value) ==
  IF \E k \in 1..Len(obj) : obj[k][1] = name
  THEN [k \in 1..Len(obj) |-> IF obj[k][1] = name THEN <<name, value>> ELSE obj[k]]
  ELSE Append(obj, <<name, value>>)

HasEntry(obj, name) == \E k \in 1..Len(obj) : obj[k][1] = name

GetEntry(obj, name) ==
  IF HasEntry(obj, name)
  THEN obj[CHOOSE k \in 1..Len(obj) : obj[k][1] = name][2]
  ELSE Undefined

\* ------------------------------------------------------------------------
\* ArgumentParser

\* The parser in the middle of parse(): o is this.options (the very object
\* DEFAULT_OPTIONS), url is this.url, i the loop index (1-based), out says
\* how parse() has ended ("loop" while it has not), msg and about are the
\* error's message and the word it quotes.
ParserAt(o) ==
  [o |-> o, url |-> Null, i |-> 1, out |-> "loop", msg |-> "", about |-> <<>>]

Throw(st, msg, about) == [st EXCEPT !.out = "throw", !.msg = msg, !.about = about]

Exit(st, code, msg, about) ==
  [st EXCEPT !.out = IF code = 0 THEN "exit0" ELSE "exit1",
             !.msg = msg, !.about = about]

\* String.prototype.lastIndexOf(c), 1-based; 0 when absent.
LastIndexOf(s, c) ==
  IF \E k \in 1..Len(s) : s[k] = c
  THEN CHOOSE k \in 1..Len(s) : s[k] = c /\ \A j \in (k + 1)..Len(s) : s[j] # c
  ELSE 0

\* A parseHeader that splits at the last colon.
parseHeader_LastColon(st, headerString) ==
  IF headerString = Undefined
  THEN Throw(st, "Cannot read properties of undefined (reading 'indexOf')", <<>>)
  ELSE LET colonIndex == LastIndexOf(headerString, ":")
       IN IF colonIndex = 0
          THEN Exit(st, 1, "Invalid header format", headerString)
          ELSE LET name == Trim(Slice(headerString, 1, colonIndex - 1))
                   value == Trim(Slice(headerString, colonIndex + 1,
                                       Len(headerString)))
               IN [st EXCEPT !.o.headers = SetEntry(@, name, value),
                             !.i = st.i + 2]

\* ArgumentParser.parseHeader(headerString), then the loop's i++.
parseHeader(st, headerString) ==
  IF headerString = Undefined
  THEN Throw(st, "Cannot read properties of undefined (reading 'indexOf')", <<>>)
  ELSE LET colonIndex == IndexOf(headerString, ":")
       IN IF colonIndex = 0
          THEN Exit(st, 1, "Invalid header format", headerString)
          ELSE LET name == Trim(Slice(headerString, 1, colonIndex - 1))
                   value == Trim(Slice(headerString, colonIndex + 1,
                                       Len(headerString)))
               IN [st EXCEPT !.o.headers = SetEntry(@, name, value),
                             !.i = st.i + 2]

\* case '--expires'
parseExpires(st, word) ==
  LET expires == parseInt(word)
  IN IF expires.nan \/ expires.val < 1 \/ expires.val > MaxExpires
     THEN Throw(st, "--expires must be a number between 1 and 604800 (7 days)",
                <<>>)
     ELSE [st EXCEPT !.o.expires = expires.val, !.i = st.i + 2]

\* case '--output' of the legacy entry point, which checks nothing.
parseOutput_Unchecked(st, word) ==
  [st EXCEPT !.o.output = word, !.i = st.i + 2]

\* case '--output': the word is stored before it is checked.
parseOutput(st, word) ==
  IF word \in OutputFormats
  THEN [st EXCEPT !.o.output = word, !.i = st.i + 2]
  ELSE [Throw(st, "--output must be one of: url, curl, headers", <<>>)
          EXCEPT !.o.output = word]

\* One turn of the while loop of parse(): the switch on args[i] and the i++.
\* An option that takes a value reads args[++i], which is undefined past the
\* end of the list.
ParseArg(args, st) ==
  LET arg == args[st.i]
      word == At(args, st.i + 1)
  IN CASE arg \in O_help -> Exit(st, 0, "HELP_TEXT", <<>>)
       [] arg \in O_method -> [st EXCEPT !.o.method = word, !.i = st.i + 2]
       [] arg \in O_header -> parseHeader(st, word)
       [] arg \in O_data -> [st EXCEPT !.o.body = word, !.i = st.i + 2]
       [] arg \in O_service -> [st EXCEPT !.o.service = word, !.i = st.i + 2]
       [] arg \in O_region -> [st EXCEPT !.o.region = word, !.i = st.i + 2]
       [] arg \in O_accessKey ->
            [st EXCEPT !.o.accessKeyId = word, !.i = st.i + 2]
       [] arg \in O_secretKey ->
            [st EXCEPT !.o.secretAccessKey = word, !.i = st.i + 2]
       [] arg \in O_sessionToken ->
            [st EXCEPT !.o.sessionToken = word, !.i = st.i + 2]
       [] arg \in O_profile -> [st EXCEPT !.o.profile = word, !.i = st.i + 2]
       [] arg \in O_expires -> parseExpires(st, word)
       [] arg \in O_signQuery -> [st EXCEPT !.o.signQuery = TRUE, !.i = st.i + 1]
       [] arg \in O_output -> parseOutput(st, word)
       [] arg \in O_verbose -> [st EXCEPT !.o.verbose = TRUE, !.i = st.i + 1]
       [] OTHER ->
            IF StartsWithDash(arg) THEN Throw(st, "Unknown option", arg)
            ELSE IF Truthy(st.url)
            THEN Throw(st, "Multiple URLs provided. Only one URL is allowed.",
                       <<>>)
            ELSE [st EXCEPT !.url = arg, !.i = st.i + 1]

\* A parse() that returns without a URL.
RECURSIVE ParseLoop_UrlOptional(_, _)
ParseLoop_UrlOptional(args, st) ==
  IF st.out # "loop" THEN st
  ELSE IF st.i <= Len(args) THEN ParseLoop_UrlOptional(args, ParseArg(args, st))
  ELSE [st EXCEPT !.out = "return"]

\* ArgumentParser.parse(): the loop, then the check that a URL was given.
RECURSIVE ParseLoop(_, _)
ParseLoop(args, st) ==
  IF st.out # "loop" THEN st
  ELSE IF st.i <= Len(args) THEN ParseLoop(args, ParseArg(args, st))
  ELSE IF ~Truthy(st.url) THEN Exit(st, 1, "Error: URL is required", <<>>)
  ELSE [st EXCEPT !.out = "return"]

parse(args, o) == ParseLoop(args, ParserAt(o))

\* ------------------------------------------------------------------------
\* AWS4CLI

\* this.requestOptions = {} : no key is set.
EmptyRequest ==
  [hostname |-> Undefined, path |-> Undefined, protocol |-> Undefined,
   service |-> Undefined, region |-> Undefined, method |-> Undefined,
   headers |-> <<>>, body |-> Undefined, signQuery |-> FALSE]

\* AWS4CLI.parseUrl(): ok = FALSE is the catch branch (Invalid URL, exit 1).
parseUrl(ro, u, o) ==
  LET parsedUrl == URL(u)
  IN IF ~parsedUrl.ok THEN [ok |-> FALSE, ro |-> ro]
     ELSE [ok |-> TRUE,
           ro |-> [ro EXCEPT
             !.hostname = parsedUrl.hostname,
             !.path = parsedUrl.pathname \o parsedUrl.search,
             !.protocol = parsedUrl.protocol,
             !.service = OrElse(o.service,
                                extractServiceFromHost(parsedUrl.hostname)),
             !.region = OrElse(o.region,
                               extractRegionFromHost(parsedUrl.hostname))]]

\* process.argv.indexOf(word) === -1
ArgvLacks(args, words) == \A k \in 1..Len(args) : args[k] \notin words

\* The method of buildRequestOptions(): POST replaces a GET when a body is
\* given and process.argv holds neither -X nor --method.
RequestMethod(o, args) ==
  IF Truthy(o.body) /\ o.method = <<"GET">>
     /\ ArgvLacks(args, {<<"-", "X">>}) /\ ArgvLacks(args, {<<"-", "-method">>})
  THEN <<"POST">>
  ELSE o.method

\* The rule of the legacy entry point: --sign-query alone switches query
\* signing on.
WantsSignQuery_FlagOnly(o) == o.signQuery

\* Query signing is switched on for url output and by --sign-query.
WantsSignQuery(o) == o.output = <<"url">> \/ o.signQuery

\* The other answer to the open question of the specification: the option
\* always overwrites the URL's X-Amz-Expires.
PathWithExpires_Overwrite(path, u, o) ==
  LET parsed == URL(u)
      params == searchParams(parsed.search)
  IN parsed.pathname
     \o SearchOf(ParamsSet(params, <<"X-Amz-Expires">>,
                           NumberToString(o.expires)))

\* The path of a query-signed request: X-Amz-Expires is added to the URL's
\* query unless the URL has it already, and only then is the path rewritten.
PathWithExpires(path, u, o) ==
  LET parsed == URL(u)
      params == searchParams(parsed.search)
  IN IF ~ParamsHas(params, <<"X-Amz-Expires">>)
     THEN parsed.pathname
          \o SearchOf(ParamsSet(params, <<"X-Amz-Expires">>,
                                NumberToString(o.expires)))
     ELSE path

\* AWS4CLI.buildRequestOptions()
buildRequestOptions(ro, u, o, args) ==
  LET signQuery == IF WantsSignQuery(o) THEN TRUE ELSE ro.signQuery
  IN [ro EXCEPT
        !.method = RequestMethod(o, args),
        !.headers = o.headers,
        !.body = IF Truthy(o.body) THEN o.body ELSE ro.body,
        !.signQuery = signQuery,
        !.path = IF signQuery THEN PathWithExpires(ro.path, u, o) ELSE ro.path]

NoCredentials ==
  [accessKeyId |-> Undefined, secretAccessKey |-> Undefined,
   sessionToken |-> Undefined]

\* A different order of sources: a profile, when given, goes before the keys.
HasExplicitCredentials_ProfileFirst(o) ==
  Truthy(o.accessKeyId) /\ Truthy(o.secretAccessKey) /\ ~Truthy(o.profile)

\* resolveCredentials() takes its first branch: both keys are set in options.
HasExplicitCredentials(o) == Truthy(o.accessKeyId) /\ Truthy(o.secretAccessKey)

ExplicitCredentials(o) ==
  [accessKeyId |-> o.accessKeyId,
   secretAccessKey |-> o.secretAccessKey,
   sessionToken |-> IF Truthy(o.sessionToken) THEN o.sessionToken ELSE Undefined]

\* process.env.AWS_PROFILE while the provider chain runs.
ProfileDuringChain(e, o) ==
  IF Truthy(o.profile) THEN [e EXCEPT !.AWS_PROFILE = o.profile] ELSE e

\* "Restore original profile" after the provider chain has resolved.
RestoreProfile(e, o, original) ==
  IF original # Undefined THEN [e EXCEPT !.AWS_PROFILE = original]
  ELSE IF Truthy(o.profile) THEN [e EXCEPT !.AWS_PROFILE = Undefined]
  ELSE e

\* "Restore original profile on error": the catch block reads
\* process.env.AWS_PROFILE again and writes that value back.
RestoreProfileOnError(e, o) ==
  LET original == e.AWS_PROFILE
  IN IF original # Undefined THEN [e EXCEPT !.AWS_PROFILE = original]
     ELSE IF Truthy(o.profile) THEN [e EXCEPT !.AWS_PROFILE = Undefined]
     ELSE e

\* ------------------------------------------------------------------------
\* The signer, aws4.sign(requestOptions, credentials), is a dependency of the
\* repository.  Its result is modelled as the specification describes it: in
\* header mode the date, the security token of temporary credentials and the
\* Authorization header are added to the headers; in query mode the same
\* material is added to the query of the path, the signature last.

AppendQuery(path, name, value) ==
  path \o <<IF IndexOf(path, "?") = 0 THEN "?" ELSE "&">> \o name \o <<"=">> \o value

SignedQueryPath(path, credentials) ==
  LET dated == AppendQuery(path, <<"X-Amz-Date">>, <<"DATE">>)
      algo == AppendQuery(dated, <<"X-Amz-Algorithm">>, <<"AWS4-HMAC-SHA256">>)
      cred == AppendQuery(algo, <<"X-Amz-Credential">>, credentials.accessKeyId)
      hdrs == AppendQuery(cred, <<"X-Amz-SignedHeaders">>, <<"host">>)
      tokn == IF Truthy(credentials.sessionToken)
              THEN AppendQuery(hdrs, <<"X-Amz-Security-Token">>,
                               credentials.sessionToken)
              ELSE hdrs
  IN AppendQuery(tokn, <<"X-Amz-Signature">>, <<"SIGNATURE">>)

SignedHeaders(headers, credentials) ==
  LET dated == SetEntry(headers, <<"x-amz-date">>, <<"DATE">>)
      tokn == IF Truthy(credentials.sessionToken)
              THEN SetEntry(dated, <<"x-amz-security-token">>,
                            credentials.sessionToken)
              ELSE dated
  IN SetEntry(tokn, <<"Authorization">>, <<"AWS4-HMAC-SHA256 SIGNATURE">>)

aws4_sign(request, credentials) ==
  IF request.signQuery
  THEN [request EXCEPT !.path = SignedQueryPath(@, credentials)]
  ELSE [request EXCEPT !.headers = SignedHeaders(@, credentials)]

\* ------------------------------------------------------------------------
\* Output formatting: the printed text, as pieces.

\* `${protocol}//${hostname}${path}`
UrlText(signed) ==
  OrElse(signed.protocol, <<"https", ":">>) \o <<"/", "/">> \o signed.hostname
    \o OrElse(signed.path, <<"/">>)

\* formatUrl of the legacy entry point, which appends nothing.
formatUrl_NothingAppended(signed, o) == UrlText(signed)

formatUrl(signed, o) ==
  UrlText(signed)
    \o (IF Truthy(o.sessionToken)
        THEN <<"&", "X-Amz-Security-Token", "=">> \o o.sessionToken
        ELSE <<>>)

HeaderLine(entry) == entry[1] \o <<":", " ">> \o entry[2]

formatHeaders(signed) ==
  Trim(Join([k \in 1..Len(signed.headers) |-> HeaderLine(signed.headers[k])],
            "\n"))

RECURSIVE CurlHeaders(_)
CurlHeaders(headers) ==
  IF headers = <<>> THEN <<>>
  ELSE <<" \\\n  -H \"">> \o HeaderLine(headers[1]) \o <<"\"">>
         \o CurlHeaders(Tail(headers))

formatCurl(signed, o) ==
  <<"curl -X ">> \o OrElse(signed.method, <<"GET">>)
    \o CurlHeaders(signed.headers)
    \o (IF Truthy(o.sessionToken)
        THEN <<" \\\n  -H \"", "x-amz-security-token", ":", " ">>
               \o o.sessionToken \o <<"\"">>
        ELSE <<>>)
    \o (IF Truthy(signed.body)
        THEN <<" \\\n  -d '">> \o signed.body \o <<"'">>
        ELSE <<>>)
    \o <<" \\\n  \"">> \o UrlText(signed) \o <<"\"">>

formatOutput(signed, o) ==
  CASE o.output = <<"curl">> -> formatCurl(signed, o)
    [] o.output = <<"headers">> -> formatHeaders(signed)
    [] OTHER -> formatUrl(signed, o)

\* ------------------------------------------------------------------------
\* Inputs

MaxArgs == 3
MaxParsers == 2
MaxLabels == 5

RECURSIVE SeqsUpTo(_, _)
SeqsUpTo(S, n) ==
  IF n = 0 THEN {<<>>}
  ELSE LET shorter == SeqsUpTo(S, n - 1)
       IN shorter \cup {Append(q, x) : q \in {r \in shorter : Len(r) = n - 1}, x \in S}

W_X == <<"-", "X">>
W_H == <<"-", "H">>
W_d == <<"-", "d">>
W_s == <<"-", "s">>
W_r == <<"-", "r">>
W_v == <<"-", "v">>
W_h == <<"-", "h">>
W_accessKey == <<"-", "-access-key">>
W_secretKey == <<"-", "-secret-key">>
W_sessionToken == <<"-", "-session-token">>
W_profile == <<"-", "-profile">>
W_expires == <<"-", "-expires">>
W_signQuery == <<"-", "-sign-query">>
W_output == <<"-", "-output">>
W_bogus == <<"-", "-unknown-option">>

W_header == <<"Content-Type", ":", " ", "application/json">>
W_body == <<"{}">>
\* ' X-Time : 12:30 ' : a value with a colon of its own, and blanks to trim.
W_timeHeader == <<" ", "X-Time", " ", ":", " ", "12", ":", "30", " ">>

U_bucket ==
  <<"https", ":", "/", "/", "my-bucket", ".", "s3", ".", "us-west-2", ".",
    "amazonaws", ".", "com", "/", "my-file.txt">>
U_dynamodb ==
  <<"https", ":", "/", "/", "dynamodb", ".", "us-east-1", ".", "amazonaws",
    ".", "com", "/">>
U_s3global ==
  <<"https", ":", "/", "/", "s3", ".", "amazonaws", ".", "com", "/",
    "my-bucket", "/", "my-file.txt">>
U_other == <<"https", ":", "/", "/", "example", ".", "com", "/", "x">>
U_queues ==
  <<"https", ":", "/", "/", "sqs", ".", "us-east-1", ".", "amazonaws", ".",
    "com", "/", "?", "Action", "=", "ListQueues", "&", "Version">>
U_expired ==
  <<"https", ":", "/", "/", "example", ".", "com", "/", "x", "?",
    "X-Amz-Expires", "=", "0">>
U_minute ==
  <<"https", ":", "/", "/", "sqs", ".", "us-east-1", ".", "amazonaws", ".",
    "com", "/", "?", "X-Amz-Expires", "=", "6", "0", "&", "Action", "=",
    "ListQueues">>
U_local ==
  <<"http", ":", "/", "/", "localhost", ":", "8080", "/", "p", "#", "top">>
U_invalid == <<"my-file.txt">>

\* Argument lists: every list of at most MaxArgs words over one family of
\* options and values at a time.
RequestWords == {W_X, W_H, W_d, <<"GET">>, <<"POST">>, W_header, W_body, U_dynamodb}
ScopeWords ==
  {W_s, W_r, W_v, <<"execute-api">>, <<"eu-west-1">>, U_bucket, U_s3global, U_other}
CredentialWords ==
  {W_accessKey, W_secretKey, W_sessionToken, W_profile, <<"AKIACMDLINEKEY">>,
   <<"dev">>, U_bucket}
PresignWords ==
  {W_expires, W_signQuery, W_output, <<"0">>, <<"6", "0", "4", "8", "0", "0">>,
   <<"6", "0", "4", "8", "0", "1">>, <<"1", "2", "h">>, <<"curl">>,
   U_bucket, U_queues, U_expired, U_minute}
OtherWords == {W_h, W_v, W_bogus, W_H, <<"headers">>, W_output, U_local, U_invalid}

WordFamilies == {RequestWords, ScopeWords, CredentialWords, PresignWords, OtherWords}

ArgvSet == UNION {SeqsUpTo(F, MaxArgs) : F \in WordFamilies}

\* Argument lists of library use (the unit tests build one parser after
\* another in one process): one option, --sign-query with an output
\* format, or headers for a curl command, then a URL.
LibOptions ==
  {<<>>, <<W_X, <<"POST">>>>, <<W_H, W_header>>, <<W_d, W_body>>,
   <<W_s, <<"execute-api">>>>, <<W_r, <<"eu-west-1">>>>,
   <<W_accessKey, <<"AKIACMDLINEKEY">>>>, <<W_secretKey, <<"cmdlinesecret">>>>,
   <<W_sessionToken, <<"cmdlinetoken">>>>, <<W_profile, <<"dev">>>>,
   <<W_expires, <<"7", "2", "0", "0">>>>, <<W_expires, <<"9", "9", "9", "9", "9", "9">>>>,
   <<W_signQuery>>, <<W_output, <<"curl">>>>, <<W_output, <<"invalid">>>>,
   <<W_v>>, <<W_signQuery, W_output, <<"curl">>>>,
   <<W_signQuery, W_output, <<"headers">>>>,
   <<W_H, W_timeHeader>>,
   <<W_output, <<"curl">>, W_H, W_header, W_H, W_timeHeader>>}

LibArgvSet == {opt \o <<u>> : opt \in LibOptions, u \in {U_bucket, U_other}}

\* process.env when the module loads.
NoEnv ==
  [AWS_REGION |-> Undefined, AWS_ACCESS_KEY_ID |-> Undefined,
   AWS_SECRET_ACCESS_KEY |-> Undefined, AWS_SESSION_TOKEN |-> Undefined,
   AWS_PROFILE |-> Undefined]

Environments ==
  {NoEnv,
   [NoEnv EXCEPT !.AWS_ACCESS_KEY_ID = <<"AKIAENVKEY">>,
                 !.AWS_SECRET_ACCESS_KEY = <<"envsecret">>,
                 !.AWS_REGION = <<"us-east-1">>],
   [NoEnv EXCEPT !.AWS_ACCESS_KEY_ID = <<"AKIAENVKEY">>,
                 !.AWS_SECRET_ACCESS_KEY = <<"envsecret">>,
                 !.AWS_SESSION_TOKEN = <<"envtoken">>],
   [NoEnv EXCEPT !.AWS_PROFILE = <<"default">>]}

\* What the provider chain can resolve to: static keys, temporary
\* credentials, and a profile whose aws_access_key_id is empty.
ProviderCredentials ==
  {[accessKeyId |-> <<"AKIAPROFILE">>, secretAccessKey |-> <<"profilesecret">>,
    sessionToken |-> Undefined],
   [accessKeyId |-> <<"ASIATEMP">>, secretAccessKey |-> <<"tempsecret">>,
    sessionToken |-> <<"temptoken">>],
   [accessKeyId |-> <<>>, secretAccessKey |-> <<"profilesecret">>,
    sessionToken |-> Undefined]}

\* ------------------------------------------------------------------------
\* State

VARIABLES
  mode,             \* "cli": main() runs (NODE_ENV is not test); "lib": the
                    \* classes are exported and a caller drives them
  env,              \* process.env
  DEFAULT_OPTIONS,  \* the module-level object every parser and every
                    \* AWS4CLI built from a parser shares as its options
  argv,             \* process.argv.slice(2)
  pc,               \* where the current run stands
  url,              \* this.url of the parser, then of the AWS4CLI
  requestOptions,   \* this.requestOptions of the AWS4CLI
  originalProfile,  \* the local of resolveCredentials() across its await
  credentials,      \* what resolveCredentials() returned
  signedOptions,    \* what aws4.sign returned
  error,            \* the exception on its way to the caller
  stdout,           \* console.log of the current run
  stderr,           \* console.error of the current run
  exitCode,         \* process.exit(code); -1 while the process lives
  signerCalls,      \* the arguments of each aws4.sign call of the run
  providerCalls,    \* the arguments of each fromNodeProviderChain call
  nParsers          \* how many ArgumentParser objects were built

vars ==
  <<mode, env, DEFAULT_OPTIONS, argv, pc, url, requestOptions, originalProfile,
    credentials, signedOptions, error, stdout, stderr, exitCode, signerCalls,
    providerCalls, nParsers>>

Line(tag, about) == [tag |-> tag, about |-> about]

NoError == Line("", <<>>)

\* A new run starts with nothing said and nothing called.
ResetRun ==
  /\ url' = Null
  /\ requestOptions' = EmptyRequest
  /\ originalProfile' = Undefined
  /\ credentials' = NoCredentials
  /\ signedOptions' = EmptyRequest
  /\ error' = NoError
  /\ stdout' = <<>>
  /\ stderr' = <<>>
  /\ signerCalls' = <<>>
  /\ providerCalls' = <<>>

Init ==
  /\ mode \in {"cli", "lib"}
  /\ env \in Environments
  /\ DEFAULT_OPTIONS = DefaultOptionsAtLoad(env)
  /\ argv = <<>>
  /\ pc = "loaded"
  /\ url = Null
  /\ requestOptions = EmptyRequest
  /\ originalProfile = Undefined
  /\ credentials = NoCredentials
  /\ signedOptions = EmptyRequest
  /\ error = NoError
  /\ stdout = <<>>
  /\ stderr = <<>>
  /\ signerCalls = <<>>
  /\ providerCalls = <<>>
  /\ exitCode = -1
  /\ nParsers = 0

\* process.exit(code) after console.error(line)
ExitWith(code, line) ==
  /\ pc' = "exited"
  /\ exitCode' = code
  /\ stderr' = Append(stderr, line)

\* new ArgumentParser(): this.args = process.argv.slice(2), this.options =
\* DEFAULT_OPTIONS, this.url = null.  main() builds one; a caller of the
\* exported class builds one after another, each with its own process.argv.
NewParser ==
  /\ \/ pc = "loaded"
     \/ mode = "lib" /\ pc \in {"threw", "done"} /\ nParsers < MaxParsers
  /\ argv' \in IF mode = "cli" THEN ArgvSet ELSE LibArgvSet
  /\ pc' = "constructed"
  /\ nParsers' = nParsers + 1
  /\ ResetRun
  /\ UNCHANGED <<mode, env, DEFAULT_OPTIONS, exitCode>>

\* ArgumentParser.parse()
Parse ==
  /\ pc = "constructed"
  /\ LET st == parse(argv, DEFAULT_OPTIONS)
     IN /\ DEFAULT_OPTIONS' = st.o
        /\ url' = st.url
        /\ CASE st.out = "return" ->
                  /\ pc' = "parsed"
                  /\ UNCHANGED <<error, stdout, stderr, exitCode>>
             [] st.out = "throw" ->
                  /\ pc' = "threw"
                  /\ error' = Line(st.msg, st.about)
                  /\ UNCHANGED <<stdout, stderr, exitCode>>
             [] st.out = "exit0" ->
                  /\ pc' = "exited"
                  /\ exitCode' = 0
                  /\ stdout' = Append(stdout, Line(st.msg, st.about))
                  /\ UNCHANGED <<error, stderr>>
             [] OTHER ->
                  /\ ExitWith(1, Line(st.msg, st.about))
                  /\ stdout' =
                       IF st.msg = "Error: URL is required"
                       THEN Append(stdout,
                              Line("Run \"aws4-cli --help\" for usage information.", <<>>))
                       ELSE stdout
                  /\ UNCHANGED error
  /\ UNCHANGED <<mode, env, argv, requestOptions, originalProfile, credentials,
                 signedOptions, signerCalls, providerCalls, nParsers>>

\* The catch of main(): console.error(`Error: ${error.message}`), exit(1).
\* (The line is kept as the message it carries.)
MainCatch ==
  /\ mode = "cli"
  /\ pc = "threw"
  /\ ExitWith(1, error)
  /\ UNCHANGED <<mode, env, DEFAULT_OPTIONS, argv, url, requestOptions,
                 originalProfile, credentials, signedOptions, error, stdout,
                 signerCalls, providerCalls, nParsers>>

\* new AWS4CLI(url, options)
NewAWS4CLI ==
  /\ pc = "parsed"
  /\ pc' = "cli"
  /\ requestOptions' = EmptyRequest
  /\ UNCHANGED <<mode, env, DEFAULT_OPTIONS, argv, url, originalProfile,
                 credentials, signedOptions, error, stdout, stderr, exitCode,
                 signerCalls, providerCalls, nParsers>>

\* run(): this.parseUrl()
ParseUrl ==
  /\ pc = "cli"
  /\ LET r == parseUrl(requestOptions, url, DEFAULT_OPTIONS)
     IN IF r.ok
        THEN /\ requestOptions' = r.ro
             /\ pc' = "urlParsed"
             /\ UNCHANGED <<stderr, exitCode>>
        ELSE /\ ExitWith(1, Line("Invalid URL", url))
             /\ UNCHANGED requestOptions
  /\ UNCHANGED <<mode, env, DEFAULT_OPTIONS, argv, url, originalProfile,
                 credentials, signedOptions, error, stdout, signerCalls,
                 providerCalls, nParsers>>

\* run(): this.buildRequestOptions(), then the verbose report of what will
\* be signed.
BuildRequestOptions ==
  /\ pc = "urlParsed"
  /\ requestOptions' =
       buildRequestOptions(requestOptions, url, DEFAULT_OPTIONS, argv)
  /\ stderr' =
       IF DEFAULT_OPTIONS.verbose
       THEN stderr \o <<Line("Service: ", requestOptions'.service),
                        Line("Region: ", requestOptions'.region)>>
       ELSE stderr
  /\ pc' = "built"
  /\ UNCHANGED <<mode, env, DEFAULT_OPTIONS, argv, url, originalProfile,
                 credentials, signedOptions, error, stdout, exitCode,
                 signerCalls, providerCalls, nParsers>>

\* sign(): resolveCredentials() up to its return or its await.
ResolveCredentials ==
  /\ pc = "built"
  /\ IF HasExplicitCredentials(DEFAULT_OPTIONS)
     THEN /\ credentials' = ExplicitCredentials(DEFAULT_OPTIONS)
          /\ pc' = "resolved"
          /\ UNCHANGED <<env, originalProfile, providerCalls>>
     ELSE /\ originalProfile' = env.AWS_PROFILE
          /\ env' = ProfileDuringChain(env, DEFAULT_OPTIONS)
          /\ providerCalls' =
               Append(providerCalls,
                      [profile |-> DEFAULT_OPTIONS.profile,
                       region |-> requestOptions.region])
          /\ pc' = "awaiting"
          /\ UNCHANGED credentials
  /\ UNCHANGED <<mode, DEFAULT_OPTIONS, argv, url, requestOptions,
                 signedOptions, error, stdout, stderr, exitCode, signerCalls,
                 nParsers>>

\* The verbose report of resolved temporary credentials.
TokenAnnounced(c, o) ==
  IF o.verbose /\ Truthy(c.sessionToken)
  THEN <<Line("Presigned URL will include X-Amz-Security-Token parameter", <<>>)>>
  ELSE <<>>

\* A return statement that leaves the session token out.
ProviderResolves_TokenLeftOut ==
  /\ pc = "awaiting"
  /\ \E c \in ProviderCredentials :
       /\ credentials' =
            [accessKeyId |-> c.accessKeyId, secretAccessKey |-> c.secretAccessKey,
             sessionToken |-> Undefined]
       /\ stderr' = stderr \o TokenAnnounced(c, DEFAULT_OPTIONS)
  /\ env' = RestoreProfile(env, DEFAULT_OPTIONS, originalProfile)
  /\ pc' = "resolved"
  /\ UNCHANGED <<mode, DEFAULT_OPTIONS, argv, url, requestOptions,
                 originalProfile, signedOptions, error, stdout,
                 exitCode, signerCalls, providerCalls, nParsers>>

\* The provider chain resolves: the rest of the try block.
ProviderResolves ==
  /\ pc = "awaiting"
  /\ \E c \in ProviderCredentials :
       /\ credentials' =
            [accessKeyId |-> c.accessKeyId, secretAccessKey |-> c.secretAccessKey,
             sessionToken |-> c.sessionToken]
       /\ stderr' = stderr \o TokenAnnounced(c, DEFAULT_OPTIONS)
  /\ env' = RestoreProfile(env, DEFAULT_OPTIONS, originalProfile)
  /\ pc' = "resolved"
  /\ UNCHANGED <<mode, DEFAULT_OPTIONS, argv, url, requestOptions,
                 originalProfile, signedOptions, error, stdout,
                 exitCode, signerCalls, providerCalls, nParsers>>

\* A catch block that reports and then goes on with no credentials instead
\* of ending the process.
ProviderRejects_GoesOn ==
  /\ pc = "awaiting"
  /\ env' = RestoreProfileOnError(env, DEFAULT_OPTIONS)
  /\ stderr' = Append(stderr, Line("Error: Failed to resolve AWS credentials.", <<>>))
  /\ pc' = "resolved"
  /\ UNCHANGED <<mode, DEFAULT_OPTIONS, argv, url, requestOptions,
                 originalProfile, credentials, signedOptions, error, stdout,
                 exitCode, signerCalls, providerCalls, nParsers>>

\* The provider chain rejects: the catch block.
ProviderRejects ==
  /\ pc = "awaiting"
  /\ env' = RestoreProfileOnError(env, DEFAULT_OPTIONS)
  /\ ExitWith(1, Line("Error: Failed to resolve AWS credentials.", <<>>))
  /\ UNCHANGED <<mode, DEFAULT_OPTIONS, argv, url, requestOptions,
                 originalProfile, credentials, signedOptions, error, stdout,
                 signerCalls, providerCalls, nParsers>>

\* sign(): aws4.sign(this.requestOptions, credentials) returns.
SignReturns ==
  /\ pc = "resolved"
  /\ signerCalls' =
       Append(signerCalls, [request |-> requestOptions, credentials |-> credentials])
  /\ signedOptions' = aws4_sign(requestOptions, credentials)
  /\ pc' = "signed"
  /\ UNCHANGED <<mode, env, DEFAULT_OPTIONS, argv, url, requestOptions,
                 originalProfile, credentials, error, stdout, stderr, exitCode,
                 providerCalls, nParsers>>

\* A catch block that writes the request out as it stands before it ends
\* the process.
SignThrows_PartialResult ==
  /\ pc = "resolved"
  /\ signerCalls' =
       Append(signerCalls, [request |-> requestOptions, credentials |-> credentials])
  /\ stdout' =
       Append(stdout, Line("output", formatOutput(requestOptions, DEFAULT_OPTIONS)))
  /\ ExitWith(1, Line("Error signing request", <<>>))
  /\ UNCHANGED <<mode, env, DEFAULT_OPTIONS, argv, url, requestOptions,
                 originalProfile, credentials, signedOptions, error,
                 providerCalls, nParsers>>

\* sign(): aws4.sign throws and the catch block ends the process.
SignThrows ==
  /\ pc = "resolved"
  /\ signerCalls' =
       Append(signerCalls, [request |-> requestOptions, credentials |-> credentials])
  /\ ExitWith(1, Line("Error signing request", <<>>))
  /\ UNCHANGED <<mode, env, DEFAULT_OPTIONS, argv, url, requestOptions,
                 originalProfile, credentials, signedOptions, error, stdout,
                 providerCalls, nParsers>>

\* run(): console.log(this.formatOutput(signedOptions))
PrintOutput ==
  /\ pc = "signed"
  /\ stdout' = Append(stdout, Line("output", formatOutput(signedOptions, DEFAULT_OPTIONS)))
  /\ pc' = "done"
  /\ UNCHANGED <<mode, env, DEFAULT_OPTIONS, argv, url, requestOptions,
                 originalProfile, credentials, signedOptions, error, stderr,
                 exitCode, signerCalls, providerCalls, nParsers>>

Next ==
  \/ NewParser
  \/ Parse
  \/ MainCatch
  \/ NewAWS4CLI
  \/ ParseUrl
  \/ BuildRequestOptions
  \/ ResolveCredentials
  \/ ProviderResolves
  \/ ProviderRejects
  \/ SignReturns
  \/ SignThrows
  \/ PrintOutput

Spec == Init /\ [][Next]_vars

\* ------------------------------------------------------------------------
\* Hostname extraction on its own: an AWS4CLI built by a caller for a URL
\* whose hostname is any list of at most MaxLabels labels, with the options
\* of an empty environment; parseUrl() is the one operation.

HostLabels ==
  {<<"my-bucket">>, <<"s3">>, <<"us-west-2">>, <<"amazonaws">>, <<"com">>}

Hostnames ==
  {Join(labels, ".") : labels \in SeqsUpTo(HostLabels, MaxLabels) \ {<<>>}}

HostInit ==
  /\ mode = "lib"
  /\ env = NoEnv
  /\ DEFAULT_OPTIONS = DefaultOptionsAtLoad(NoEnv)
  /\ argv = <<>>
  /\ pc = "cli"
  /\ url \in {<<"https", ":", "/", "/">> \o h \o <<"/">> : h \in Hostnames}
  /\ requestOptions = EmptyRequest
  /\ originalProfile = Undefined
  /\ credentials = NoCredentials
  /\ signedOptions = EmptyRequest
  /\ error = NoError
  /\ stdout = <<>>
  /\ stderr = <<>>
  /\ signerCalls = <<>>
  /\ providerCalls = <<>>
  /\ exitCode = -1
  /\ nParsers = 0

HostNext == ParseUrl

HostSpec == HostInit /\ [][HostNext]_vars

\* ------------------------------------------------------------------------
\* The legacy entry point, src/index.js, which the integration tests spawn:
\* a synchronous main() with a parser that owns its options, no provider
\* chain and no --expires or --profile.  It shares the variables: here
\* DEFAULT_OPTIONS holds this.options of the one parser.

\* s.includes(sub)
Includes(s, sub) ==
  \E k \in 0..(Len(s) - Len(sub)) : SubSeq(s, k + 1, k + Len(sub)) = sub

\* parts.findIndex(part => part === label), 1-based; 0 when there is none.
FindIndex(parts, label) ==
  IF \E k \in 1..Len(parts) : parts[k] = label
  THEN CHOOSE k \in 1..Len(parts) :
         parts[k] = label /\ \A j \in 1..(k - 1) : parts[j] # label
  ELSE 0

\* this.options of the legacy ArgumentParser constructor.
LegacyOptions(e) ==
  [method |-> <<"GET">>,
   headers |-> <<>>,
   region |-> OrElse(e.AWS_REGION, <<"us-east-1">>),
   accessKeyId |-> e.AWS_ACCESS_KEY_ID,
   secretAccessKey |-> e.AWS_SECRET_ACCESS_KEY,
   sessionToken |-> e.AWS_SESSION_TOKEN,
   signQuery |-> FALSE,
   output |-> <<"curl">>,
   verbose |-> FALSE,
   body |-> Undefined,
   service |-> Undefined]

\* One turn of the loop of the legacy parse(): errors are reported and end
\* the process; --output is stored unchecked.
LegacyParseArg(args, st) ==
  LET arg == args[st.i]
      word == At(args, st.i + 1)
  IN CASE arg \in O_help -> Exit(st, 0, "HELP_TEXT", <<>>)
       [] arg \in O_method -> [st EXCEPT !.o.method = word, !.i = st.i + 2]
       [] arg \in O_header -> parseHeader(st, word)
       [] arg \in O_data -> [st EXCEPT !.o.body = word, !.i = st.i + 2]
       [] arg \in O_service -> [st EXCEPT !.o.service = word, !.i = st.i + 2]
       [] arg \in O_region -> [st EXCEPT !.o.region = word, !.i = st.i + 2]
       [] arg \in O_accessKey ->
            [st EXCEPT !.o.accessKeyId = word, !.i = st.i + 2]
       [] arg \in O_secretKey ->
            [st EXCEPT !.o.secretAccessKey = word, !.i = st.i + 2]
       [] arg \in O_sessionToken ->
            [st EXCEPT !.o.sessionToken = word, !.i = st.i + 2]
       [] arg \in O_signQuery -> [st EXCEPT !.o.signQuery = TRUE, !.i = st.i + 1]
       [] arg \in O_output -> [st EXCEPT !.o.output = word, !.i = st.i + 2]
       [] arg \in O_verbose -> [st EXCEPT !.o.verbose = TRUE, !.i = st.i + 1]
       [] OTHER ->
            IF StartsWithDash(arg) THEN Exit(st, 1, "Unknown option", arg)
            ELSE IF Truthy(st.url)
            THEN Exit(st, 1, "Multiple URLs provided. Only one URL is allowed.",
                      <<>>)
            ELSE [st EXCEPT !.url = arg, !.i = st.i + 1]

RECURSIVE LegacyParseLoop(_, _)
LegacyParseLoop(args, st) ==
  IF st.out # "loop" THEN st
  ELSE IF st.i <= Len(args)
  THEN LegacyParseLoop(args, LegacyParseArg(args, st))
  ELSE IF ~Truthy(st.url) THEN Exit(st, 1, "Error: URL is required", <<>>)
  ELSE [st EXCEPT !.out = "return"]

LegacyParse(args, o) == LegacyParseLoop(args, ParserAt(o))

\* Legacy extractServiceFromHost: s3 for a bucket hostname, the first label
\* of an amazonaws hostname, s3 otherwise.
LegacyExtractServiceFromHost(hostname) ==
  LET parts == Split(hostname, ".")
  IN IF Includes(hostname, <<".", "s3", ".">>)
        \/ Includes(hostname, <<".", "s3", "-">>)
     THEN <<"s3">>
     ELSE IF Len(parts) >= 3 /\ parts[Len(parts) - 1] = <<"amazonaws">>
     THEN parts[1]
     ELSE <<"s3">>

\* Legacy extractRegionFromHost
LegacyExtractRegionFromHost(hostname) ==
  LET parts == Split(hostname, ".")
      regionIndex == FindIndex(parts, <<"s3">>) + 1
      dashed == {k \in 1..Len(parts) :
                   Len(parts[k]) >= 2 /\ SubSeq(parts[k], 1, 2) = <<"s3", "-">>}
  IN IF /\ Includes(hostname, <<".", "s3", ".">>)
        /\ Len(parts) >= 4
        /\ regionIndex <= Len(parts)
        /\ parts[regionIndex] # <<"amazonaws">>
     THEN parts[regionIndex]
     ELSE IF Includes(hostname, <<".", "s3", "-">>) /\ dashed # {}
     THEN LET first == CHOOSE k \in dashed : \A j \in dashed : k <= j
          IN SubSeq(parts[first], 3, Len(parts[first]))
     ELSE IF Len(parts) >= 3 /\ parts[Len(parts) - 1] = <<"amazonaws">>
     THEN parts[2]
     ELSE Null

\* Legacy parseUrl(): the hostname's region is used when the option equals
\* what the constructor would have set without -r.
LegacyRegion(o, e, extractedRegion) ==
  IF Truthy(extractedRegion)
     /\ o.region = OrElse(e.AWS_REGION, <<"us-east-1">>)
  THEN extractedRegion
  ELSE o.region

LegacyParseUrl(ro, u, o, e) ==
  LET parsedUrl == URL(u)
  IN IF ~parsedUrl.ok THEN [ok |-> FALSE, ro |-> ro]
     ELSE [ok |-> TRUE,
           ro |-> [ro EXCEPT
             !.hostname = parsedUrl.hostname,
             !.path = parsedUrl.pathname \o parsedUrl.search,
             !.protocol = parsedUrl.protocol,
             !.service =
               IF ~Truthy(o.service)
               THEN LegacyExtractServiceFromHost(parsedUrl.hostname)
               ELSE o.service,
             !.region =
               LegacyRegion(o, e, LegacyExtractRegionFromHost(parsedUrl.hostname))]]

\* Legacy buildRequestOptions()
LegacyBuildRequestOptions(ro, o, args) ==
  [ro EXCEPT
     !.method = RequestMethod(o, args),
     !.headers = o.headers,
     !.body = IF Truthy(o.body) THEN o.body ELSE ro.body,
     !.signQuery = IF o.signQuery THEN TRUE ELSE ro.signQuery]

\* Legacy sign(): the credentials object built from the options.
LegacyCredentials(o) ==
  [accessKeyId |-> IF Truthy(o.accessKeyId) THEN o.accessKeyId ELSE Undefined,
   secretAccessKey |->
     IF Truthy(o.secretAccessKey) THEN o.secretAccessKey ELSE Undefined,
   sessionToken |-> IF Truthy(o.sessionToken) THEN o.sessionToken ELSE Undefined]

\* Legacy sign(): the check that ends the process.
LegacyCredentialsNotFound(o, e) ==
  /\ ~Truthy(o.accessKeyId) \/ ~Truthy(o.secretAccessKey)
  /\ ~Truthy(e.AWS_ACCESS_KEY_ID) \/ ~Truthy(e.AWS_SECRET_ACCESS_KEY)

\* Legacy formatUrl, formatCurl and formatOutput (curl is the default).
LegacyFormatCurl(signed) ==
  <<"curl -X ">> \o OrElse(signed.method, <<"GET">>)
  \o CurlHeaders(signed.headers)
  \o (IF Truthy(signed.body)
      THEN <<" \\\n  -d '">> \o signed.body \o <<"'">>
      ELSE <<>>)
  \o <<" \\\n  \"">> \o UrlText(signed) \o <<"\"">>

LegacyFormatOutput(signed, o) ==
  CASE o.output = <<"headers">> -> formatHeaders(signed)
    [] o.output = <<"url">> -> UrlText(signed)
    [] OTHER -> LegacyFormatCurl(signed)

\* Command lines of the legacy entry point.
LegacyWords ==
  {W_r, W_s, W_v, W_output, <<"us-east-1">>, <<"eu-west-1">>, <<"url">>,
   U_bucket, U_other}

LegacyArgvSet == SeqsUpTo(LegacyWords, MaxArgs)

LegacyInit ==
  /\ mode = "legacy"
  /\ env \in Environments
  /\ DEFAULT_OPTIONS = LegacyOptions(env)
  /\ argv = <<>>
  /\ pc = "loaded"
  /\ url = Null
  /\ requestOptions = EmptyRequest
  /\ originalProfile = Undefined
  /\ credentials = NoCredentials
  /\ signedOptions = EmptyRequest
  /\ error = NoError
  /\ stdout = <<>>
  /\ stderr = <<>>
  /\ signerCalls = <<>>
  /\ providerCalls = <<>>
  /\ exitCode = -1
  /\ nParsers = 0

\* main(): new ArgumentParser()
LegacyNewParser ==
  /\ pc = "loaded"
  /\ argv' \in LegacyArgvSet
  /\ pc' = "constructed"
  /\ nParsers' = nParsers + 1
  /\ UNCHANGED <<mode, env, DEFAULT_OPTIONS, url, requestOptions,
                 originalProfile, credentials, signedOptions, error, stdout,
                 stderr, exitCode, signerCalls, providerCalls>>

\* main(): parser.parse().  An exception (a header option with no value)
\* reaches the uncaughtException handler, which reports it and exits.
LegacyParses ==
  /\ pc = "constructed"
  /\ LET st == LegacyParse(argv, DEFAULT_OPTIONS)
     IN /\ DEFAULT_OPTIONS' = st.o
        /\ url' = st.url
        /\ CASE st.out = "return" ->
                  /\ pc' = "parsed"
                  /\ UNCHANGED <<stdout, stderr, exitCode>>
             [] st.out = "exit0" ->
                  /\ pc' = "exited"
                  /\ exitCode' = 0
                  /\ stdout' = Append(stdout, Line(st.msg, st.about))
                  /\ UNCHANGED stderr
             [] OTHER ->
                  /\ ExitWith(1, Line(st.msg, st.about))
                  /\ stdout' =
                       IF st.msg = "Error: URL is required"
                       THEN Append(stdout,
                              Line("Run \"aws4-cli --help\" for usage information.", <<>>))
                       ELSE stdout
  /\ UNCHANGED <<mode, env, argv, requestOptions, originalProfile, credentials,
                 signedOptions, error, signerCalls, providerCalls, nParsers>>

\* main(): new AWS4CLI(url, options); run() begins with the verbose report,
\* before parseUrl() has set anything.
LegacyReport ==
  /\ pc = "parsed"
  /\ requestOptions' = EmptyRequest
  /\ stderr' =
       IF DEFAULT_OPTIONS.verbose
       THEN stderr \o <<Line("Service: ", EmptyRequest.service),
                        Line("Region: ", EmptyRequest.region)>>
       ELSE stderr
  /\ pc' = "cli"
  /\ UNCHANGED <<mode, env, DEFAULT_OPTIONS, argv, url, originalProfile,
                 credentials, signedOptions, error, stdout, exitCode,
                 signerCalls, providerCalls, nParsers>>

\* run(): this.parseUrl()
LegacyParsesUrl ==
  /\ pc = "cli"
  /\ LET r == LegacyParseUrl(requestOptions, url, DEFAULT_OPTIONS, env)
     IN IF r.ok
        THEN /\ requestOptions' = r.ro
             /\ pc' = "urlParsed"
             /\ UNCHANGED <<stderr, exitCode>>
        ELSE /\ ExitWith(1, Line("Invalid URL", url))
             /\ UNCHANGED requestOptions
  /\ UNCHANGED <<mode, env, DEFAULT_OPTIONS, argv, url, originalProfile,
                 credentials, signedOptions, error, stdout, signerCalls,
                 providerCalls, nParsers>>

\* run(): this.buildRequestOptions()
LegacyBuilds ==
  /\ pc = "urlParsed"
  /\ requestOptions' = LegacyBuildRequestOptions(requestOptions, DEFAULT_OPTIONS, argv)
  /\ pc' = "built"
  /\ UNCHANGED <<mode, env, DEFAULT_OPTIONS, argv, url, originalProfile,
                 credentials, signedOptions, error, stdout, stderr, exitCode,
                 signerCalls, providerCalls, nParsers>>

\* sign(): no credentials in the options and none in the environment.
LegacyNoCredentials ==
  /\ pc = "built"
  /\ LegacyCredentialsNotFound(DEFAULT_OPTIONS, env)
  /\ ExitWith(1, Line("Error: AWS credentials not found.", <<>>))
  /\ UNCHANGED <<mode, env, DEFAULT_OPTIONS, argv, url, requestOptions,
                 originalProfile, credentials, signedOptions, error, stdout,
                 signerCalls, providerCalls, nParsers>>

\* sign(): aws4.sign(this.requestOptions, credentials) returns.
LegacySignReturns ==
  /\ pc = "built"
  /\ ~LegacyCredentialsNotFound(DEFAULT_OPTIONS, env)
  /\ credentials' = LegacyCredentials(DEFAULT_OPTIONS)
  /\ signerCalls' =
       Append(signerCalls,
              [request |-> requestOptions, credentials |-> credentials'])
  /\ signedOptions' = aws4_sign(requestOptions, credentials')
  /\ pc' = "signed"
  /\ UNCHANGED <<mode, env, DEFAULT_OPTIONS, argv, url, requestOptions,
                 originalProfile, error, stdout, stderr, exitCode,
                 providerCalls, nParsers>>

\* sign(): aws4.sign throws.
LegacySignThrows ==
  /\ pc = "built"
  /\ ~LegacyCredentialsNotFound(DEFAULT_OPTIONS, env)
  /\ credentials' = LegacyCredentials(DEFAULT_OPTIONS)
  /\ signerCalls' =
       Append(signerCalls,
              [request |-> requestOptions, credentials |-> credentials'])
  /\ ExitWith(1, Line("Error signing request", <<>>))
  /\ UNCHANGED <<mode, env, DEFAULT_OPTIONS, argv, url, requestOptions,
                 originalProfile, signedOptions, error, stdout, providerCalls,
                 nParsers>>

\* run(): console.log(this.formatOutput(signedOptions))
LegacyPrints ==
  /\ pc = "signed"
  /\ stdout' =
       Append(stdout,
              Line("output", LegacyFormatOutput(signedOptions, DEFAULT_OPTIONS)))
  /\ pc' = "done"
  /\ UNCHANGED <<mode, env, DEFAULT_OPTIONS, argv, url, requestOptions,
                 originalProfile, credentials, signedOptions, error, stderr,
                 exitCode, signerCalls, providerCalls, nParsers>>

LegacyNext ==
  \/ LegacyNewParser
  \/ LegacyParses
  \/ LegacyReport
  \/ LegacyParsesUrl
  \/ LegacyBuilds
  \/ LegacyNoCredentials
  \/ LegacySignReturns
  \/ LegacySignThrows
  \/ LegacyPrints

LegacySpec == LegacyInit /\ [][LegacyNext]_vars

\* ------------------------------------------------------------------------
\* Overlapping sign() calls: a caller of the exported class holds two
\* AWS4CLI instances, each with an options object of its own that names a
\* profile and no keys, has called parseUrl() and buildRequestOptions() on
\* both and calls sign() on both without awaiting the first.  The variables
\* of one run hold one value per instance here: pc, DEFAULT_OPTIONS
\* (this.options), url, requestOptions, originalProfile, credentials and
\* signedOptions are functions of the instance; process.env is the one
\* object both share.

Instances == {1, 2}

ConcurrentProfiles == {<<"dev">>, <<"prod">>, <<"ci">>}

\* The options a caller builds for an instance.
OptionsWithProfile(profile) ==
  [DefaultOptionsAtLoad(NoEnv) EXCEPT !.profile = profile, !.output = <<"curl">>]

\* this.requestOptions after parseUrl() and buildRequestOptions().
BuiltRequest(u, o) ==
  buildRequestOptions(parseUrl(EmptyRequest, u, o).ro, u, o, <<>>)

ConcurrentInit ==
  /\ mode = "concurrent"
  /\ env \in {NoEnv, [NoEnv EXCEPT !.AWS_PROFILE = <<"default">>]}
  /\ DEFAULT_OPTIONS \in
       {[i \in Instances |-> OptionsWithProfile(f[i])] :
          f \in {g \in [Instances -> ConcurrentProfiles] : g[1] # g[2]}}
  /\ url \in [Instances -> {U_bucket, U_dynamodb}]
  /\ requestOptions = [i \in Instances |-> BuiltRequest(url[i], DEFAULT_OPTIONS[i])]
  /\ pc = [i \in Instances |-> "built"]
  /\ originalProfile = [i \in Instances |-> Undefined]
  /\ credentials = [i \in Instances |-> NoCredentials]
  /\ signedOptions = [i \in Instances |-> EmptyRequest]
  /\ argv = <<>>
  /\ error = NoError
  /\ stdout = <<>>
  /\ stderr = <<>>
  /\ signerCalls = <<>>
  /\ providerCalls = <<>>
  /\ exitCode = -1
  /\ nParsers = 0

\* process.exit(1) after console.error(line): no instance goes on.
ConcurrentExit(line) ==
  /\ pc' = [i \in Instances |-> "exited"]
  /\ exitCode' = 1
  /\ stderr' = Append(stderr, line)

\* sign() of instance i: resolveCredentials() up to its return or its await.
ConcurrentResolveCredentials(i) ==
  /\ pc[i] = "built"
  /\ IF HasExplicitCredentials(DEFAULT_OPTIONS[i])
     THEN /\ credentials' =
               [credentials EXCEPT ![i] = ExplicitCredentials(DEFAULT_OPTIONS[i])]
          /\ pc' = [pc EXCEPT ![i] = "resolved"]
          /\ UNCHANGED <<env, originalProfile, providerCalls>>
     ELSE /\ originalProfile' = [originalProfile EXCEPT ![i] = env.AWS_PROFILE]
          /\ env' = ProfileDuringChain(env, DEFAULT_OPTIONS[i])
          /\ providerCalls' =
               Append(providerCalls,
                      [instance |-> i,
                       profile |-> DEFAULT_OPTIONS[i].profile,
                       region |-> requestOptions[i].region])
          /\ pc' = [pc EXCEPT ![i] = "awaiting"]
          /\ UNCHANGED credentials
  /\ UNCHANGED <<mode, DEFAULT_OPTIONS, argv, url, requestOptions,
                 signedOptions, error, stdout, stderr, exitCode, signerCalls,
                 nParsers>>

\* The provider chain of instance i resolves: the rest of its try block.
ConcurrentProviderResolves(i) ==
  /\ pc[i] = "awaiting"
  /\ \E c \in ProviderCredentials :
       credentials' =
         [credentials EXCEPT ![i] =
            [accessKeyId |-> c.accessKeyId, secretAccessKey |-> c.secretAccessKey,
             sessionToken |-> c.sessionToken]]
  /\ env' = RestoreProfile(env, DEFAULT_OPTIONS[i], originalProfile[i])
  /\ pc' = [pc EXCEPT ![i] = "resolved"]
  /\ UNCHANGED <<mode, DEFAULT_OPTIONS, argv, url, requestOptions,
                 originalProfile, signedOptions, error, stdout, stderr,
                 exitCode, signerCalls, providerCalls, nParsers>>

\* The provider chain of instance i rejects: its catch block.
ConcurrentProviderRejects(i) ==
  /\ pc[i] = "awaiting"
  /\ env' = RestoreProfileOnError(env, DEFAULT_OPTIONS[i])
  /\ ConcurrentExit(Line("Error: Failed to resolve AWS credentials.", <<>>))
  /\ UNCHANGED <<mode, DEFAULT_OPTIONS, argv, url, requestOptions,
                 originalProfile, credentials, signedOptions, error, stdout,
                 signerCalls, providerCalls, nParsers>>

\* sign() of instance i: aws4.sign returns.
ConcurrentSignReturns(i) ==
  /\ pc[i] = "resolved"
  /\ signerCalls' =
       Append(signerCalls,
              [request |-> requestOptions[i], credentials |-> credentials[i]])
  /\ signedOptions' =
       [signedOptions EXCEPT ![i] = aws4_sign(requestOptions[i], credentials[i])]
  /\ pc' = [pc EXCEPT ![i] = "signed"]
  /\ UNCHANGED <<mode, env, DEFAULT_OPTIONS, argv, url, requestOptions,
                 originalProfile, credentials, error, stdout, stderr, exitCode,
                 providerCalls, nParsers>>

\* sign() of instance i: aws4.sign throws.
ConcurrentSignThrows(i) ==
  /\ pc[i] = "resolved"
  /\ signerCalls' =
       Append(signerCalls,
              [request |-> requestOptions[i], credentials |-> credentials[i]])
  /\ ConcurrentExit(Line("Error signing request", <<>>))
  /\ UNCHANGED <<mode, env, DEFAULT_OPTIONS, argv, url, requestOptions,
                 originalProfile, credentials, signedOptions, error, stdout,
                 providerCalls, nParsers>>

ConcurrentNext ==
  \E i \in Instances :
    \/ ConcurrentResolveCredentials(i)
    \/ ConcurrentProviderResolves(i)
    \/ ConcurrentProviderRejects(i)
    \/ ConcurrentSignReturns(i)
    \/ ConcurrentSignThrows(i)

ConcurrentSpec == ConcurrentInit /\ [][ConcurrentNext]_vars

\* ------------------------------------------------------------------------
\* Vocabulary of the properties

HasLine(log, tag) == \E k \in 1..Len(log) : log[k].tag = tag

Printed == HasLine(stdout, "output")

\* A word that is a decimal integer, digit for digit, and its value.
IsDecimal(w) ==
  /\ w \notin {Undefined, Null, <<>>}
  /\ \A k \in 1..Len(w) : IsDigit(w[k])

DecimalValue(w) == DigitRun(w, 1, [n |-> 0, val |-> 0]).val

InExpiryRange(w) == IsDecimal(w) /\ DecimalValue(w) \in 1..MaxExpires

ExpiresMessage == "--expires must be a number between 1 and 604800 (7 days)"

ExpiresRejected ==
  \/ pc = "threw" /\ error.tag = ExpiresMessage
  \/ pc = "exited" /\ exitCode = 1 /\ HasLine(stderr, ExpiresMessage)

\* The run has not gone past parse(): no URL parsed, no provider chain, no
\* signer.
NothingBeyondParse ==
  /\ requestOptions = EmptyRequest
  /\ providerCalls = <<>>
  /\ signerCalls = <<>>
  /\ ~Printed

\* parse() has been called on the current argument list.
ParseCalled == pc \notin {"loaded", "constructed"}

\* buildRequestOptions() has been called in the current run.
BuildCalled ==
  \/ pc \in {"built", "awaiting", "resolved", "signed", "done"}
  \/ pc = "exited" /\ (providerCalls # <<>> \/ signerCalls # <<>>)

\* The query of a request path, and the pathname before it.
QueryOfPath(path) ==
  LET q == IndexOf(path, "?")
  IN IF q = 0 THEN <<>> ELSE Slice(path, q, Len(path))

PathnameOfPath(path) ==
  LET q == IndexOf(path, "?")
  IN IF q = 0 THEN path ELSE Slice(path, 1, q - 1)

\* ------------------------------------------------------------------------
\* C1 (as claimed): an argument list of --expires alone, or of --expires, a
\* word and a URL, is rejected with the --expires error, before any URL
\* parsing, credential resolution or signing, whenever the word is missing,
\* is not a number, or is a number below 1 or above 604800; a word that is an
\* integer from 1 to 604800 is accepted and is options.expires when parse()
\* returns.
C1_ExpiresValidated ==
  (/\ ParseCalled
   /\ argv # <<>> /\ argv[1] \in O_expires
   /\ Len(argv) = 1 \/ (Len(argv) = 3 /\ URL(argv[3]).ok)) =>
    IF InExpiryRange(At(argv, 2))
    THEN /\ ~ExpiresRejected
         /\ pc # "constructed" /\ pc # "threw"
         /\ DEFAULT_OPTIONS.expires = DecimalValue(argv[2])
    ELSE ExpiresRejected /\ NothingBeyondParse

\* C2 (as claimed): every request handed to the signer in query-signing mode
\* carries, in its path, an X-Amz-Expires value that is an integer from 1 to
\* 604800.
C2_SignedExpiryBounded ==
  \A k \in 1..Len(signerCalls) :
    signerCalls[k].request.signQuery =>
      InExpiryRange(ParamsGet(searchParams(QueryOfPath(signerCalls[k].request.path)),
                              <<"X-Amz-Expires">>))

\* C3 (as claimed): the options parse() returns hold the documented default
\* of every option that is absent from the parser's own argument list, also
\* when other parsers have parsed other lists before in the same process.
C3_DefaultsPerParser ==
  pc = "parsed" =>
    /\ ArgvLacks(argv, O_method) => DEFAULT_OPTIONS.method = <<"GET">>
    /\ ArgvLacks(argv, O_header) => DEFAULT_OPTIONS.headers = <<>>
    /\ ArgvLacks(argv, O_expires) => DEFAULT_OPTIONS.expires = DefaultExpires
    /\ ArgvLacks(argv, O_signQuery) => DEFAULT_OPTIONS.signQuery = FALSE
    /\ ArgvLacks(argv, O_output) => DEFAULT_OPTIONS.output = <<"url">>
    /\ ArgvLacks(argv, O_verbose) => DEFAULT_OPTIONS.verbose = FALSE

\* C4: once buildRequestOptions() has run, requestOptions.signQuery is true
\* exactly when options.output is 'url' or options.signQuery is set (which
\* --sign-query sets); so with output curl or headers and no --sign-query the
\* signer is called in header mode, and every request the signer gets has
\* signQuery as the options say.
C4_SignQueryIffUrlOrFlag ==
  LET wanted == DEFAULT_OPTIONS.output = <<"url">> \/ DEFAULT_OPTIONS.signQuery
  IN /\ BuildCalled => (requestOptions.signQuery <=> wanted)
     /\ \A k \in 1..Len(signerCalls) :
          signerCalls[k].request.signQuery <=> wanted
     /\ (/\ BuildCalled
         /\ mode = "cli"
         /\ ArgvLacks(argv, O_signQuery)
         /\ DEFAULT_OPTIONS.output \in {<<"curl">>, <<"headers">>})
        => ~requestOptions.signQuery

\* C4 witness: the signer has been called in header mode for curl output.
C4_Witness ==
  /\ pc = "signed"
  /\ DEFAULT_OPTIONS.output = <<"curl">>
  /\ ~DEFAULT_OPTIONS.signQuery
  /\ Len(signerCalls) = 1
  /\ ~signerCalls[1].request.signQuery

\* C5: the path of every request handed to the signer.  In query mode, for a
\* URL without X-Amz-Expires, it is the URL's pathname and the URL's
\* parameters, in their order, followed by the one parameter
\* X-Amz-Expires=<options.expires>; for a URL that has X-Amz-Expires it is
\* the URL's pathname plus search, untouched.  In header mode it is the
\* URL's pathname plus search.
C5_PathOfSignedRequest ==
  \A k \in 1..Len(signerCalls) :
    LET request == signerCalls[k].request
        given == URL(url)
        had == searchParams(given.search)
    IN IF request.signQuery /\ ~ParamsHas(had, <<"X-Amz-Expires">>)
       THEN /\ PathnameOfPath(request.path) = given.pathname
            /\ searchParams(QueryOfPath(request.path)) =
                 Append(had, <<<<"X-Amz-Expires">>,
                              NumberToString(DEFAULT_OPTIONS.expires)>>)
       ELSE request.path = given.pathname \o given.search

\* C5 witness: a URL with two parameters and no X-Amz-Expires was signed in
\* query mode.
C5_Witness ==
  /\ pc = "signed"
  /\ url = U_queues
  /\ signerCalls[1].request.signQuery
  /\ Len(searchParams(QueryOfPath(signerCalls[1].request.path))) = 3

\* C5 witness of the other case is reachable too: a URL that carries
\* X-Amz-Expires was signed in query mode with another options.expires.
C5_PreservedReached ==
  /\ pc = "signed"
  /\ url = U_minute
  /\ signerCalls[1].request.signQuery
  /\ DEFAULT_OPTIONS.expires = MaxExpires

\* The value an argument list gives for an option it starts with.
GivenFirst(words) ==
  /\ Len(argv) >= 2
  /\ argv[1] \in words
  /\ ArgvLacks(SubSeq(argv, 3, Len(argv)), words)

\* resolveCredentials() has returned in the current run.
Resolved == pc \in {"resolved", "signed", "done"}

\* C6: the order of the credential sources.  A value given with
\* --access-key, --secret-key or --session-token is the option's value, in
\* place of the environment's; an option the one argument list of a process
\* does not name has the environment's value.  When options hold both an
\* access key ID and a secret access key, resolveCredentials() returns
\* exactly those, with the session token when one is set, and the provider
\* chain is not invoked, --profile or not; the provider chain is invoked
\* only when one of the two is missing.
C6_CredentialSourceOrder ==
  LET o == DEFAULT_OPTIONS
      both == Truthy(o.accessKeyId) /\ Truthy(o.secretAccessKey)
  IN /\ ParseCalled =>
          /\ GivenFirst(O_accessKey) => o.accessKeyId = argv[2]
          /\ GivenFirst(O_secretKey) => o.secretAccessKey = argv[2]
          /\ GivenFirst(O_sessionToken) => o.sessionToken = argv[2]
     /\ (ParseCalled /\ nParsers = 1) =>
          /\ ArgvLacks(argv, O_accessKey) => o.accessKeyId = env.AWS_ACCESS_KEY_ID
          /\ ArgvLacks(argv, O_secretKey) =>
               o.secretAccessKey = env.AWS_SECRET_ACCESS_KEY
          /\ ArgvLacks(argv, O_sessionToken) =>
               o.sessionToken = env.AWS_SESSION_TOKEN
     /\ (Resolved /\ both) =>
          /\ credentials.accessKeyId = o.accessKeyId
          /\ credentials.secretAccessKey = o.secretAccessKey
          /\ credentials.sessionToken =
               (IF Truthy(o.sessionToken) THEN o.sessionToken ELSE Undefined)
          /\ providerCalls = <<>>
     /\ (BuildCalled /\ pc # "built" /\ ~both) => Len(providerCalls) = 1
     /\ providerCalls # <<>> => ~both

\* C6 witness: a run with --profile and the keys of the environment has
\* resolved to the environment's keys without a call of the provider chain.
C6_Witness ==
  /\ pc = "resolved"
  /\ DEFAULT_OPTIONS.profile = <<"dev">>
  /\ credentials.accessKeyId = <<"AKIAENVKEY">>
  /\ credentials.secretAccessKey = <<"envsecret">>
  /\ providerCalls = <<>>

\* A key of the command line has replaced the key of the environment in the
\* credentials of a run.
C6_CommandLineOverEnv ==
  /\ pc = "resolved"
  /\ env.AWS_ACCESS_KEY_ID = <<"AKIAENVKEY">>
  /\ credentials.accessKeyId = <<"AKIACMDLINEKEY">>
  /\ providerCalls = <<>>

\* The provider chain rejected in the current run: the process ended after
\* the chain was called and before the signer was.
ChainRejected ==
  pc = "exited" /\ providerCalls # <<>> /\ signerCalls = <<>>

\* C7: when the provider chain rejects, the run reports 'Failed to resolve
\* AWS credentials' on stderr and exits with code 1; the signer is never
\* called and no result is written to stdout.  The report is made in no
\* other run, and no run goes on after it.
C7_ChainRejectionEndsRun ==
  /\ ChainRejected =>
       /\ HasLine(stderr, "Error: Failed to resolve AWS credentials.")
       /\ exitCode = 1
       /\ ~Printed
  /\ HasLine(stderr, "Error: Failed to resolve AWS credentials.") =>
       /\ ChainRejected
       /\ signedOptions = EmptyRequest

\* C7 witness: a run with a profile has ended on the rejection of the chain.
C7_Witness ==
  /\ ChainRejected
  /\ DEFAULT_OPTIONS.profile = <<"dev">>
  /\ exitCode = 1
  /\ stderr = <<Line("Error: Failed to resolve AWS credentials.", <<>>)>>

\* C8 (as claimed): the signer is called only with credentials whose
\* accessKeyId and secretAccessKey are both non-empty, and nothing is
\* printed in a run whose resolved credentials lack one of them.
C8_SignerGetsBothKeys ==
  /\ \A k \in 1..Len(signerCalls) :
       /\ Truthy(signerCalls[k].credentials.accessKeyId)
       /\ Truthy(signerCalls[k].credentials.secretAccessKey)
  /\ Printed =>
       Truthy(credentials.accessKeyId) /\ Truthy(credentials.secretAccessKey)

\* C9 (as claimed): the signer is never called with a null, undefined or
\* empty service or region, and nothing is printed in a run that has
\* determined no service or no region.
C9_SignerGetsServiceAndRegion ==
  /\ \A k \in 1..Len(signerCalls) :
       /\ Truthy(signerCalls[k].request.service)
       /\ Truthy(signerCalls[k].request.region)
  /\ Printed =>
       Truthy(requestOptions.service) /\ Truthy(requestOptions.region)

Dotted(labels) == Join(labels, ".")

\* C10: after parseUrl() with no service and no region in the options, a
\* hostname <service>.<region>.amazonaws.com or
\* <prefix>.<service>.<region>.amazonaws.com has given <service> as the
\* service and <region> as the region, and a hostname whose second-to-last
\* label is not 'amazonaws' (or that has one label only) has given null for
\* both.
C10_HostnamePattern ==
  pc = "urlParsed" =>
    LET hostname == requestOptions.hostname
        labels == Split(hostname, ".")
    IN /\ \A service \in HostLabels, region \in HostLabels :
            \/ hostname = Dotted(<<service, region, <<"amazonaws">>, <<"com">>>>)
            \/ \E prefix \in HostLabels :
                 hostname =
                   Dotted(<<prefix, service, region, <<"amazonaws">>, <<"com">>>>)
            => /\ requestOptions.service = service
               /\ requestOptions.region = region
       /\ (Len(labels) < 2 \/ labels[Len(labels) - 1] # <<"amazonaws">>) =>
            /\ requestOptions.service = Null
            /\ requestOptions.region = Null

\* C10 witness: my-bucket.s3.us-west-2.amazonaws.com has given s3 and
\* us-west-2.
C10_Witness ==
  /\ pc = "urlParsed"
  /\ requestOptions.hostname =
       Dotted(<<<<"my-bucket">>, <<"s3">>, <<"us-west-2">>, <<"amazonaws">>, <<"com">>>>)
  /\ requestOptions.service = <<"s3">>
  /\ requestOptions.region = <<"us-west-2">>

\* A hostname outside the pattern has given null for both.
C10_NullReached ==
  /\ pc = "urlParsed"
  /\ requestOptions.hostname = Dotted(<<<<"s3">>, <<"com">>>>)
  /\ requestOptions.service = Null
  /\ requestOptions.region = Null

\* ------------------------------------------------------------------------
\* Service and region of the request

\* The run is the one run of its process, with the options of its own
\* argument list.
OwnRun == nParsers = 1 /\ ParseCalled

\* What every verbose 'Service:' and 'Region:' line of the run shows.
VerboseShows(tag, value) ==
  \A k \in 1..Len(stderr) : stderr[k].tag = tag => stderr[k].about = value

\* C11 (as claimed): for the region-less AWS hostname s3.amazonaws.com given
\* without --service, the service shown in verbose mode and passed to the
\* signer is s3, the service the hostname names, and without --region and
\* AWS_REGION the region derived from the hostname is not a service name.
C11_RegionlessHostname ==
  (OwnRun /\ url = U_s3global /\ ArgvLacks(argv, O_service)) =>
    /\ VerboseShows("Service: ", <<"s3">>)
    /\ \A k \in 1..Len(signerCalls) :
         /\ signerCalls[k].request.service = <<"s3">>
         /\ (ArgvLacks(argv, O_region) /\ env.AWS_REGION = Undefined) =>
              signerCalls[k].request.region # <<"s3">>

\* C12 (as claimed): without --region and without AWS_REGION, for a hostname
\* that carries no region (example.com, s3.amazonaws.com), the region passed
\* to the signer is the documented default us-east-1.
C12_DefaultRegion ==
  (/\ OwnRun
   /\ url \in {U_other, U_s3global}
   /\ ArgvLacks(argv, O_region)
   /\ env.AWS_REGION = Undefined) =>
    \A k \in 1..Len(signerCalls) :
      signerCalls[k].request.region = <<"us-east-1">>

\* C13 (as claimed): a region given with -r/--region as the first option is
\* the region of every request passed to the signer, whatever region the
\* hostname carries and also when the value is the default or the value of
\* AWS_REGION.
C13_ExplicitRegionWins ==
  (/\ OwnRun
   /\ Len(argv) >= 2
   /\ argv[1] \in O_region
   /\ argv[2] \in {<<"us-east-1">>, <<"eu-west-1">>}
   /\ ArgvLacks(SubSeq(argv, 3, Len(argv)), O_region)) =>
    \A k \in 1..Len(signerCalls) : signerCalls[k].request.region = argv[2]

\* C14 (as claimed): without -r/--region on the command line, for the
\* hostname my-bucket.s3.us-west-2.amazonaws.com the region passed to the
\* signer is the hostname's us-west-2, also when AWS_REGION names another
\* region.
C14_HostnameRegionOverEnv ==
  (OwnRun /\ url = U_bucket /\ ArgvLacks(argv, O_region)) =>
    \A k \in 1..Len(signerCalls) :
      signerCalls[k].request.region = <<"us-west-2">>

\* ------------------------------------------------------------------------
\* The security token in the output

\* The result the run has printed: the text of its one 'output' line.
PrintedText ==
  stdout[CHOOSE k \in 1..Len(stdout) : stdout[k].tag = "output"].about

SecurityTokenParameter(token) == <<"&", "X-Amz-Security-Token", "=">> \o token

\* C15: in url output the printed URL is the signed protocol, hostname and
\* path, followed, when options hold a session token, by the trailing
\* parameter &X-Amz-Security-Token=<token>, which so comes after the
\* X-Amz-Signature of the signed path; with no session token the printed URL
\* ends with the signed path.  The token of the options is the value given
\* with --session-token and, for a command line without that option, the
\* value of AWS_SESSION_TOKEN.
C15_TrailingSecurityToken ==
  LET token == DEFAULT_OPTIONS.sessionToken
  IN /\ (Printed /\ DEFAULT_OPTIONS.output = <<"url">>) =>
          /\ ParamsHas(searchParams(QueryOfPath(signedOptions.path)),
                       <<"X-Amz-Signature">>)
          /\ PrintedText =
               signedOptions.protocol \o <<"/", "/">> \o signedOptions.hostname
                 \o signedOptions.path
                 \o (IF Truthy(token) THEN SecurityTokenParameter(token) ELSE <<>>)
     /\ (ParseCalled /\ GivenFirst(O_sessionToken)) => token = argv[2]
     /\ (OwnRun /\ ArgvLacks(argv, O_sessionToken)) =>
          token = env.AWS_SESSION_TOKEN

\* C15 witness: a URL was printed with the token of AWS_SESSION_TOKEN after
\* its signature.
C15_Witness ==
  /\ pc = "done"
  /\ DEFAULT_OPTIONS.output = <<"url">>
  /\ env.AWS_SESSION_TOKEN = <<"envtoken">>
  /\ ArgvLacks(argv, O_sessionToken)
  /\ SubSeq(PrintedText, Len(PrintedText) - 3, Len(PrintedText)) =
       SecurityTokenParameter(<<"envtoken">>)

\* A URL was printed with nothing after its signed path.
C15_NothingAppendedReached ==
  /\ pc = "done"
  /\ DEFAULT_OPTIONS.output = <<"url">>
  /\ ~Truthy(DEFAULT_OPTIONS.sessionToken)
  /\ PrintedText = UrlText(signedOptions)

\* The printed result carries token as the value of a security-token
\* parameter (url output) or of a security-token header (curl output).
WritesSecurityToken(token) ==
  /\ Printed
  /\ Truthy(token)
  /\ \/ /\ DEFAULT_OPTIONS.output = <<"url">>
        /\ Includes(PrintedText, <<"X-Amz-Security-Token", "=">> \o token)
     \/ /\ DEFAULT_OPTIONS.output = <<"curl">>
        /\ Includes(PrintedText, <<"x-amz-security-token", ":", " ">> \o token)

\* C16 (as claimed): the security token the CLI itself writes into its
\* output, which is options.sessionToken, is the sessionToken of the
\* credentials that were passed to the signer in the same run.
C16_WrittenTokenIsTheSignersToken ==
  WritesSecurityToken(DEFAULT_OPTIONS.sessionToken) =>
    signerCalls[Len(signerCalls)].credentials.sessionToken =
      DEFAULT_OPTIONS.sessionToken

\* The printed URL has a parameter X-Amz-Security-Token=<token>.
UrlCarriesToken(token) ==
  LET params == searchParams(QueryOfPath(PrintedText))
  IN \E k \in 1..Len(params) : params[k] = <<<<"X-Amz-Security-Token">>, token>>

\* C17: when the provider chain has resolved credentials with a session
\* token and the output format is url, the printed URL has a parameter
\* X-Amz-Security-Token carrying that token, in every run and so in every
\* verbose run that has announced it.
C17_TemporaryTokenInUrl ==
  (/\ Printed
   /\ DEFAULT_OPTIONS.output = <<"url">>
   /\ providerCalls # <<>>) =>
    /\ Truthy(credentials.sessionToken) => UrlCarriesToken(credentials.sessionToken)
    /\ HasLine(stderr, "Presigned URL will include X-Amz-Security-Token parameter")
         => UrlCarriesToken(<<"temptoken">>)

\* C17 witness: temporary credentials of the provider chain, and a printed
\* URL that carries their token.
C17_Witness ==
  /\ pc = "done"
  /\ DEFAULT_OPTIONS.output = <<"url">>
  /\ providerCalls # <<>>
  /\ credentials.sessionToken = <<"temptoken">>
  /\ UrlCarriesToken(<<"temptoken">>)

\* ------------------------------------------------------------------------
\* Output format

OutputMessage == "--output must be one of: url, curl, headers"

OutputRejected ==
  \/ pc = "threw" /\ error.tag = OutputMessage
  \/ pc = "exited" /\ exitCode = 1 /\ HasLine(stderr, OutputMessage)

\* The printed text begins with prefix.
StartsWith(text, prefix) ==
  Len(text) >= Len(prefix) /\ SubSeq(text, 1, Len(prefix)) = prefix

\* The shapes of the three results: a URL that carries a signature, a curl
\* command for the signed request (signed by its Authorization header or by
\* its query), the header lines of the signed request and nothing else.
IsPresignedUrl(text) ==
  /\ StartsWith(text, signedOptions.protocol \o <<"/", "/">> \o signedOptions.hostname)
  /\ Includes(text, <<"X-Amz-Signature", "=">>)

IsCurlCommand(text) ==
  /\ StartsWith(text, <<"curl -X ">>)
  /\ text[Len(text)] = "\""
  /\ \/ Includes(text, <<"Authorization", ":", " ">>)
     \/ Includes(text, <<"X-Amz-Signature", "=">>)

IsHeaderList(text) ==
  /\ ~StartsWith(text, <<"curl -X ">>)
  /\ ~Includes(text, <<"/", "/">>)
  /\ \A k \in 1..Len(signedOptions.headers) :
       Includes(text, HeaderLine(signedOptions.headers[k]))

\* C18: parse() accepts the value of --output when it is url, curl or
\* headers and throws '--output must be one of: url, curl, headers' for any
\* other value and for none, before anything else of the run; a run that
\* prints has one of the three formats, the one its command line names (url
\* by default), and prints a presigned URL for url, a curl command for curl
\* and the header list for headers.
C18_OutputFormat ==
  /\ (ParseCalled /\ argv # <<>> /\ argv[1] \in O_output) =>
       IF At(argv, 2) \in OutputFormats
       THEN ArgvLacks(SubSeq(argv, 3, Len(argv)), O_output) =>
              ~OutputRejected /\ DEFAULT_OPTIONS.output = argv[2]
       ELSE OutputRejected /\ NothingBeyondParse
  /\ OutputRejected => NothingBeyondParse
  /\ (OwnRun /\ ArgvLacks(argv, O_output)) => DEFAULT_OPTIONS.output = <<"url">>
  /\ (OwnRun /\ Printed) =>
       CASE DEFAULT_OPTIONS.output = <<"url">> -> IsPresignedUrl(PrintedText)
         [] DEFAULT_OPTIONS.output = <<"curl">> -> IsCurlCommand(PrintedText)
         [] DEFAULT_OPTIONS.output = <<"headers">> -> IsHeaderList(PrintedText)
         [] OTHER -> FALSE

\* C18 witness: --output headers has printed the header list.
C18_Witness ==
  /\ pc = "done"
  /\ argv[1] \in O_output
  /\ argv[2] = <<"headers">>
  /\ IsHeaderList(PrintedText)
  /\ Includes(PrintedText, <<"Authorization", ":", " ">>)

\* --output with a word that is no format has been rejected.
C18_RejectedReached ==
  /\ argv # <<>> /\ argv[1] \in O_output
  /\ At(argv, 2) = <<"0">>
  /\ pc = "exited" /\ exitCode = 1
  /\ HasLine(stderr, OutputMessage)

\* --sign-query --output curl has printed a curl command for a query-signed
\* URL.
C18_QuerySignedCurlReached ==
  /\ pc = "done"
  /\ nParsers = 1
  /\ DEFAULT_OPTIONS.signQuery
  /\ DEFAULT_OPTIONS.output = <<"curl">>
  /\ IsCurlCommand(PrintedText)
  /\ ~Includes(PrintedText, <<"Authorization", ":", " ">>)

\* --output curl has printed a curl command.
C18_CurlReached ==
  /\ pc = "done"
  /\ argv[1] \in O_output
  /\ argv[2] = <<"curl">>
  /\ IsCurlCommand(PrintedText)

\* ------------------------------------------------------------------------
\* Command lines that name no request

\* The options that take a value, and all options.
ValueOptions ==
  O_method \cup O_header \cup O_data \cup O_service \cup O_region
    \cup O_accessKey \cup O_secretKey \cup O_sessionToken \cup O_profile
    \cup O_expires \cup O_output

KnownOptions == ValueOptions \cup O_help \cup O_signQuery \cup O_verbose

\* The places of a command line that hold an option or a positional
\* argument: every place but the one after an option that takes a value.
RECURSIVE ArgPlaces(_, _)
ArgPlaces(args, i) ==
  IF i > Len(args) THEN {}
  ELSE {i} \cup ArgPlaces(args, IF args[i] \in ValueOptions THEN i + 2 ELSE i + 1)

UnknownOptions(args) ==
  {i \in ArgPlaces(args, 1) : StartsWithDash(args[i]) /\ args[i] \notin KnownOptions}

Positionals(args) == {i \in ArgPlaces(args, 1) : ~StartsWithDash(args[i])}

HasOption(args, words) == \E i \in ArgPlaces(args, 1) : args[i] \in words

\* An unknown option, more than one URL, or no URL at all.
NamesNoRequest(args) ==
  \/ UnknownOptions(args) # {}
  \/ Cardinality(Positionals(args)) # 1

\* stderr has the message that matches one of these.
MatchingMessage ==
  \/ \E i \in UnknownOptions(argv) :
       \E k \in 1..Len(stderr) : stderr[k] = Line("Unknown option", argv[i])
  \/ /\ Cardinality(Positionals(argv)) > 1
     /\ HasLine(stderr, "Multiple URLs provided. Only one URL is allowed.")
  \/ /\ Positionals(argv) = {}
     /\ HasLine(stderr, "Error: URL is required")

\* A command line has been given to main().
CommandLineRun == mode = "cli" /\ pc # "loaded"

\* C19 (as claimed): a command line with an unknown option, more than one
\* URL or no URL never gets past parse(), and ends with exit code 1 and the
\* matching message on stderr.
C19_InvalidCommandLine ==
  (CommandLineRun /\ NamesNoRequest(argv)) =>
    /\ pc \in {"constructed", "threw", "exited"}
    /\ NothingBeyondParse
    /\ pc = "exited" => exitCode = 1 /\ MatchingMessage

\* stderr has the message of an argument rejected for its value.
ValueRejected ==
  \/ HasOption(argv, O_expires) /\ HasLine(stderr, ExpiresMessage)
  \/ HasOption(argv, O_output) /\ HasLine(stderr, OutputMessage)
  \/ /\ HasOption(argv, O_header)
     /\ \/ HasLine(stderr, "Invalid header format")
        \/ HasLine(stderr, "Cannot read properties of undefined (reading 'indexOf')")

HelpShown == HasLine(stdout, "HELP_TEXT")

\* C19 (amended): such a command line never gets past parse(), so that no
\* credentials are resolved and nothing is signed, and ends with exit code
\* 1 and the matching message, unless -h/--help or an argument rejected for
\* its value (--expires, --output, a header) stands in it: then it may end
\* with the help text and exit code 0, or with that argument's error and
\* exit code 1, instead.
C19_InvalidCommandLineAmended ==
  (CommandLineRun /\ NamesNoRequest(argv)) =>
    /\ pc \in {"constructed", "threw", "exited"}
    /\ NothingBeyondParse
    /\ pc = "exited" =>
         \/ exitCode = 1 /\ MatchingMessage
         \/ exitCode = 0 /\ HasOption(argv, O_help) /\ HelpShown /\ stderr = <<>>
         \/ exitCode = 1 /\ ValueRejected
    /\ (/\ pc = "exited"
        /\ ~HasOption(argv, O_help \cup O_expires \cup O_output \cup O_header))
       => exitCode = 1 /\ MatchingMessage

\* C19 witness: an unknown option before a URL has ended the run.
C19_Witness ==
  /\ CommandLineRun
  /\ argv = <<W_bogus, U_local>>
  /\ pc = "exited"
  /\ exitCode = 1
  /\ stderr = <<Line("Unknown option", W_bogus)>>
  /\ NothingBeyondParse

\* Two URLs, and no URL, have ended the run.
C19_MultipleReached ==
  /\ CommandLineRun
  /\ Cardinality(Positionals(argv)) = 2
  /\ exitCode = 1
  /\ HasLine(stderr, "Multiple URLs provided. Only one URL is allowed.")

C19_NoUrlReached ==
  /\ CommandLineRun
  /\ argv = <<W_v>>
  /\ exitCode = 1
  /\ HasLine(stderr, "Error: URL is required")

\* C20 (as claimed): a command line that has -h or --help as an option never
\* gets past parse(), raises no error and ends with the help text on stdout
\* and exit code 0, whatever stands before or after the option.
C20_HelpAlwaysWins ==
  (CommandLineRun /\ HasOption(argv, O_help)) =>
    /\ pc \in {"constructed", "exited"}
    /\ NothingBeyondParse
    /\ pc = "exited" => exitCode = 0 /\ HelpShown

\* ------------------------------------------------------------------------
\* Headers

\* The places of the header arguments of a command line: the words after
\* -H/--header.
HeaderArguments(args) ==
  {i + 1 : i \in {j \in ArgPlaces(args, 1) : args[j] \in O_header /\ j < Len(args)}}

\* The name and the value a header argument stands for: what is before and
\* after its first colon, trimmed.
HeaderName(h) == Trim(Slice(h, 1, IndexOf(h, ":") - 1))

HeaderValue(h) == Trim(Slice(h, IndexOf(h, ":") + 1, Len(h)))

\* parse() has returned in the current run.
ParseReturned ==
  pc \in {"parsed", "cli", "urlParsed", "built", "awaiting", "resolved",
          "signed", "done"}

InvalidHeaderFormat == "Invalid header format"

C21_InvalidReached ==
  /\ CommandLineRun
  /\ argv = <<W_H, <<"headers">>, U_local>>
  /\ pc = "exited"
  /\ exitCode = 1
  /\ stderr = <<Line(InvalidHeaderFormat, <<"headers">>)>>

\* ------------------------------------------------------------------------
\* The printed URL

\* The quoted URL at the end of a curl command.
CurlUrl(text) ==
  LET opening == CHOOSE k \in 1..Len(text) :
                   /\ text[k] = " \\\n  \""
                   /\ \A j \in (k + 1)..Len(text) : text[j] # " \\\n  \""
  IN SubSeq(text, opening + 1, Len(text) - 1)

\* The URL of the printed result (url and curl output).
PrintedUrl ==
  IF DEFAULT_OPTIONS.output = <<"curl">> THEN CurlUrl(PrintedText) ELSE PrintedText

\* params begins with the pairs of original, in their order.
BeginsWithParams(params, original) ==
  /\ Len(params) >= Len(original)
  /\ SubSeq(params, 1, Len(original)) = original

\* C22 (as claimed): the URL the CLI prints has the scheme, host, port and
\* path of the input URL and begins its query with the input URL's
\* parameters; in header-signing mode it is the input URL.
C22_PrintedUrlIsInputUrl ==
  (Printed /\ DEFAULT_OPTIONS.output \in {<<"url">>, <<"curl">>}) =>
    LET given == URL(url)
        shown == URL(PrintedUrl)
    IN /\ shown.ok
       /\ shown.protocol = given.protocol
       /\ shown.hostname = given.hostname
       /\ shown.port = given.port
       /\ shown.pathname = given.pathname
       /\ BeginsWithParams(searchParams(shown.search), searchParams(given.search))
       /\ ~requestOptions.signQuery => PrintedUrl = url

\* ------------------------------------------------------------------------
\* The order of a run

\* How many signed results the run has written.
OutputLines == Cardinality({k \in 1..Len(stdout) : stdout[k].tag = "output"})

\* What holds of a run at every moment: at most one result; a written result
\* is the formatted return value of the one signer call of the run, which
\* was made with the request of the parsed URL and the resolved credentials,
\* and the process has not failed; a process that ended with exit code 1 has
\* written no result.
C23_State ==
  /\ OutputLines <= 1
  /\ Printed =>
       /\ pc = "done"
       /\ exitCode = -1
       /\ requestOptions.hostname = URL(url).hostname
       /\ Len(signerCalls) = 1
       /\ signerCalls[1].request = requestOptions
       /\ signerCalls[1].credentials = credentials
       /\ signedOptions = aws4_sign(requestOptions, credentials)
       /\ PrintedText = formatOutput(signedOptions, DEFAULT_OPTIONS)
  /\ exitCode = 1 => ~Printed /\ signedOptions = EmptyRequest

\* What holds of every step of a run: the stages come in their order.
C23_Step ==
  /\ requestOptions'.hostname # requestOptions.hostname =>
       \/ pc = "cli" /\ providerCalls = <<>> /\ signerCalls = <<>>
       \/ pc' = "constructed"
  /\ Len(providerCalls') > Len(providerCalls) =>
       /\ pc = "built"
       /\ requestOptions.hostname # Undefined
       /\ signerCalls = <<>>
  /\ Len(signerCalls') > Len(signerCalls) =>
       /\ pc = "resolved"
       /\ requestOptions.hostname # Undefined
       /\ signerCalls = <<>>
       /\ ~Printed
  /\ (~Printed /\ Printed') =>
       /\ pc = "signed"
       /\ Len(signerCalls) = 1
       /\ exitCode' = -1
  /\ Printed => stdout' = stdout \/ pc' = "constructed"
  /\ exitCode' = 1 => stdout' = stdout \/ ~HasLine(stdout', "output")

\* C23: in every run a signed result is written at most once, and only
\* after parseUrl, buildRequestOptions, the resolution of the credentials
\* and the call of the signer have completed without error, in that order;
\* a run that ends with exit code 1 has written no signed or partially
\* signed result.
C23_SignedResultLast == []C23_State /\ [][C23_Step]_vars

\* C23 witness: a run has gone through the provider chain and the signer and
\* has written its one result.
C23_Witness ==
  /\ pc = "done"
  /\ OutputLines = 1
  /\ Len(providerCalls) = 1
  /\ Len(signerCalls) = 1
  /\ exitCode = -1

\* A run has ended with exit code 1 at the signer, with nothing written.
C23_SignerFailureReached ==
  /\ pc = "exited"
  /\ exitCode = 1
  /\ Len(signerCalls) = 1
  /\ HasLine(stderr, "Error signing request")
  /\ stdout = <<>>

\* ------------------------------------------------------------------------
\* process.env.AWS_PROFILE

\* resolveCredentials() has gone through the provider chain and is over, by
\* its return or by its catch block.
ChainOver == providerCalls # <<>> /\ pc # "awaiting"

\* C24 (as claimed): once resolveCredentials() is over, on its success path
\* and on its failure path alike, process.env.AWS_PROFILE has the value (or
\* the absence) it had when the call began, whatever AWS_PROFILE and
\* options.profile were.
C24_ProfileRestored ==
  ChainOver => env.AWS_PROFILE = originalProfile

\* Both sign() calls have resolved their credentials.
BothResolved == \A i \in Instances : pc[i] \in {"resolved", "signed"}

\* The instance whose sign() was called first.
FirstCaller == providerCalls[1].instance

\* C25 (as claimed): when the sign() calls of two instances with different
\* profiles overlap, process.env.AWS_PROFILE never holds the other
\* instance's profile while an instance waits for its provider chain, and
\* once both have resolved it has the value it had before the first call.
C25_OverlappingCallsKeepProfile ==
  /\ \A i \in Instances :
       pc[i] = "awaiting" =>
         \A j \in Instances \ {i} : env.AWS_PROFILE # DEFAULT_OPTIONS[j].profile
  /\ BothResolved => env.AWS_PROFILE = originalProfile[FirstCaller]

\* ------------------------------------------------------------------------
\* The method of the request

\* The method the printed curl command shows.
CurlShows(method) ==
  /\ StartsWith(PrintedText, <<"curl -X ">> \o method)
  /\ PrintedText[Len(method) + 2] \in {" \\\n  -H \"", " \\\n  -d '", " \\\n  \""}

\* C26 (as claimed): in the one run of a process, with a non-empty body and
\* no -X/--method option the method passed to the signer and shown in the
\* curl command is POST; with a -X/--method option it is the method parse()
\* stored, unchanged; and without a body it is the method parse() stored.
C26_MethodWithBody ==
  LET o == DEFAULT_OPTIONS
      expected == IF Truthy(o.body) /\ ~HasOption(argv, O_method)
                  THEN <<"POST">>
                  ELSE o.method
  IN (OwnRun /\ Truthy(expected)) =>
       /\ \A k \in 1..Len(signerCalls) : signerCalls[k].request.method = expected
       /\ (Printed /\ o.output = <<"curl">>) => CurlShows(expected)

\* ------------------------------------------------------------------------
\* The request as a function of url and options

\* this.requestOptions of an instance built with url u and options o, after
\* parseUrl() and buildRequestOptions(), in a process whose process.argv
\* holds args.
RequestOf(u, o, args) ==
  buildRequestOptions(parseUrl(EmptyRequest, u, o).ro, u, o, args)

\* Contents of process.argv of other processes.
OtherArgvs == {<<>>, <<W_X, <<"GET">>>>, <<<<"-", "-method">>, <<"GET">>>>, <<W_v>>}

\* C27 (as claimed): the request handed to the signer is the request that
\* any instance built with the same url and the same options hands over,
\* whatever process.argv holds.
C27_RequestOfUrlAndOptions ==
  \A k \in 1..Len(signerCalls) :
    \A args \in OtherArgvs :
      signerCalls[k].request = RequestOf(url, DEFAULT_OPTIONS, args)

\* ------------------------------------------------------------------------
\* The verbose report

\* C28 (as claimed): a run that has written a 'Service:' or 'Region:' line
\* has parsed its URL before; the lines show the service and the region of
\* every request the run passes to the signer; and a verbose run that
\* reaches the signer has written both lines.
C28_VerboseShowsSigned ==
  /\ (HasLine(stderr, "Service: ") \/ HasLine(stderr, "Region: ")) =>
       requestOptions.hostname # Undefined
  /\ \A k \in 1..Len(signerCalls) :
       /\ VerboseShows("Service: ", signerCalls[k].request.service)
       /\ VerboseShows("Region: ", signerCalls[k].request.region)
       /\ DEFAULT_OPTIONS.verbose =>
            HasLine(stderr, "Service: ") /\ HasLine(stderr, "Region: ")

\* ------------------------------------------------------------------------
\* Options without their value

\* The last argument is an option that takes a value.
Dangling(args) ==
  /\ args # <<>>
  /\ Len(args) \in ArgPlaces(args, 1)
  /\ args[Len(args)] \in ValueOptions

\* C29 (as claimed): a command line whose last argument is an option that
\* takes a value (and that asks for no help) does not get through parse():
\* it ends with an error; and the options parse() returns hold no undefined
\* for an option of the command line.
C29_DanglingOptionRejected ==
  LET o == DEFAULT_OPTIONS
  IN /\ (ParseCalled /\ Dangling(argv) /\ ~HasOption(argv, O_help)) =>
          /\ pc \in {"threw", "exited"}
          /\ pc = "exited" => exitCode = 1
     /\ ParseReturned =>
          /\ HasOption(argv, O_method) => o.method # Undefined
          /\ HasOption(argv, O_data) => o.body # Undefined
          /\ HasOption(argv, O_service) => o.service # Undefined
          /\ HasOption(argv, O_region) => o.region # Undefined
          /\ HasOption(argv, O_accessKey) => o.accessKeyId # Undefined
          /\ HasOption(argv, O_secretKey) => o.secretAccessKey # Undefined
          /\ HasOption(argv, O_sessionToken) => o.sessionToken # Undefined
          /\ HasOption(argv, O_profile) => o.profile # Undefined

\* ------------------------------------------------------------------------
\* The security token, once

\* How many security-token headers the printed curl command has, and how
\* many X-Amz-Security-Token parameters the printed URL has.
TokenHeaders ==
  Cardinality({k \in 1..Len(PrintedText) : PrintedText[k] = "x-amz-security-token"})

TokenParameters ==
  LET params == searchParams(QueryOfPath(PrintedText))
  IN Cardinality({k \in 1..Len(params) : params[k][1] = <<"X-Amz-Security-Token">>})

\* C30 (as claimed): when the credentials passed to the signer carry a
\* session token, a curl command printed for a header-signed request has
\* exactly one security-token header and a printed presigned URL has exactly
\* one X-Amz-Security-Token parameter.
C30_SecurityTokenOnce ==
  (Printed /\ Truthy(credentials.sessionToken)) =>
    /\ (DEFAULT_OPTIONS.output = <<"curl">> /\ ~requestOptions.signQuery) =>
         TokenHeaders = 1
    /\ DEFAULT_OPTIONS.output = <<"url">> => TokenParameters = 1

====
